---------------------------- MODULE Spec2Model ----------------------------
(***************************************************************************)
(* TradeMonster: relative-strength ranking, volume signals and the two     *)
(* backtesters (SectorRotationBacktester, SectorVolumeBacktester).          *)
(*                                                                         *)
(* Numbers.  The program computes in IEEE doubles; the model computes in   *)
(* exact extended rationals <<n, d>> (d >= 0): <<n, 1>> is the integer n,  *)
(* <<1, 0>> and <<-1, 0>> are +inf and -inf, <<0, 0>> is NaN.  Rounding    *)
(* error of the doubles is not modelled.  A z-score is a rational divided  *)
(* by the square root of a rational and is kept as that pair.              *)
(*                                                                         *)
(* Dates.  A date is a day number; day 0 is a Monday, so the business days *)
(* (pandas freq='B') are the days d with d % 7 < 5.  A DataFrame is a      *)
(* sequence of rows in date order, one row per date.                       *)
(***************************************************************************)
EXTENDS Integers, Sequences, FiniteSets, TLC

(***************************************************************************)
(* Extended rational arithmetic (float64 / numpy semantics, exact).        *)
(***************************************************************************)
Abs(n) == IF n < 0 THEN -n ELSE n

Sgn(n) == IF n < 0 THEN -1 ELSE IF n > 0 THEN 1 ELSE 0

RECURSIVE GCD(_, _)
GCD(a, b) == IF b = 0 THEN a ELSE GCD(b, a % b)

\* <<n, d>> in lowest terms with d >= 0; a zero denominator keeps only the sign.
Norm(n, d) ==
    IF d = 0 THEN <<Sgn(n), 0>>
    ELSE LET g == GCD(Abs(n), Abs(d))
             s == IF d < 0 THEN -1 ELSE 1
         IN  <<s * (n \div g), s * (d \div g)>>

R(n) == <<n, 1>>

NaN == <<0, 0>>

IsNaN(x) == x = NaN

IsFinite(x) == x[2] # 0

RNeg(x) == <<-x[1], x[2]>>

RAdd(x, y) ==
    IF x[2] = 0 \/ y[2] = 0
    THEN Norm(x[1] * y[2] + y[1] * x[2], 0)
    ELSE LET g == GCD(x[2], y[2])
         IN  Norm(x[1] * (y[2] \div g) + y[1] * (x[2] \div g), (x[2] \div g) * y[2])

RSub(x, y) == RAdd(x, RNeg(y))

RMul(x, y) ==
    IF x[2] = 0 \/ y[2] = 0
    THEN Norm(x[1] * y[1], 0)
    ELSE LET g1 == GCD(Abs(x[1]), y[2])
             g2 == GCD(Abs(y[1]), x[2])
             h1 == IF g1 = 0 THEN 1 ELSE g1
             h2 == IF g2 = 0 THEN 1 ELSE g2
         IN  Norm((x[1] \div h1) * (y[1] \div h2), (x[2] \div h2) * (y[2] \div h1))

\* x / y as numpy divides doubles: finite/0 is +-inf, 0/0 is NaN.
RDiv(x, y) ==
    IF y[1] = 0 THEN Norm(x[1] * y[2], 0)
    ELSE RMul(x, <<Sgn(y[1]) * y[2], Abs(y[1])>>)

\* a/b < c/d for a, c >= 0 and b, d > 0, by continued fractions (no products).
RECURSIVE PosLt(_, _, _, _)
PosLt(a, b, c, d) ==
    LET q1 == a \div b
        q2 == c \div d
        r1 == a % b
        r2 == c % d
    IN  IF q1 # q2 THEN q1 < q2
        ELSE IF r2 = 0 THEN FALSE
        ELSE IF r1 = 0 THEN TRUE
        ELSE PosLt(d, r2, b, r1)

\* x < y; every comparison with NaN is false.
RLt(x, y) ==
    IF IsNaN(x) \/ IsNaN(y) THEN FALSE
    ELSE IF x[2] = 0 \/ y[2] = 0
         THEN (IF x[2] = 0 THEN 2 * x[1] ELSE 0) < (IF y[2] = 0 THEN 2 * y[1] ELSE 0)
              \/ (x[2] = 0 /\ x[1] < 0 /\ y[2] # 0)
              \/ (y[2] = 0 /\ y[1] > 0 /\ x[2] # 0)
    ELSE IF Sgn(x[1]) # Sgn(y[1]) THEN Sgn(x[1]) < Sgn(y[1])
    ELSE IF x[1] >= 0 THEN PosLt(x[1], x[2], y[1], y[2])
    ELSE PosLt(-y[1], y[2], -x[1], x[2])

RGt(x, y) == RLt(y, x)

RLe(x, y) == ~IsNaN(x) /\ ~IsNaN(y) /\ ~RLt(y, x)

RGe(x, y) == RLe(y, x)

(***************************************************************************)
(* Sequence helpers.                                                       *)
(***************************************************************************)
Range(s) == {s[i] : i \in DOMAIN s}

Last(s) == s[Len(s)]

Max2(a, b) == IF a > b THEN a ELSE b

\* The sum of f[i] for i in lo..hi (rationals).
RECURSIVE RSum(_, _, _)
RSum(f, lo, hi) == IF lo > hi THEN R(0) ELSE RAdd(f[hi], RSum(f, lo, hi - 1))

\* The sequence s with every element evaluated once.
Eager(s) == SelectSeq(s, LAMBDA x : TRUE)

\* The position of x in the sequence s.
IndexOf(s, x) == CHOOSE i \in DOMAIN s : s[i] = x

\* The dates of a frame, and the row with a given date.
Dates(frame) == {frame[i].date : i \in DOMAIN frame}

HasDate(frame, d) == \E i \in DOMAIN frame : frame[i].date = d

RowAt(frame, d) == frame[CHOOSE i \in DOMAIN frame : frame[i].date = d]

\* frame.loc[:d]: the rows dated on or before d.
UpTo(frame, d) == SelectSeq(frame, LAMBDA row : row.date <= d)

\* The elements of a finite set of integers, in increasing order.
RECURSIVE SortedSeq(_)
SortedSeq(S) ==
    IF S = {} THEN <<>>
    ELSE LET m == CHOOSE x \in S : \A y \in S : x <= y
         IN  <<m>> \o SortedSeq(S \ {m})

(***************************************************************************)
(* The price database: PriceData rows per symbol, and the query both       *)
(* get_price_volume_data and calculate_relative_strength run on it.        *)
(***************************************************************************)
\* Rows of `symbol` with start_date <= date <= end_date, in date order.
get_price_volume_data(db, symbol, start_date, end_date) ==
    SelectSeq(db[symbol], LAMBDA row : start_date <= row.date /\ row.date <= end_date)

(***************************************************************************)
(* RelativeStrengthAnalyzer.                                               *)
(***************************************************************************)
\* benchmark_data.join(etf_data, how='inner'): the benchmark's rows whose date
\* the instrument has too, with both closes.
Combined(benchmark_data, etf_data) ==
    LET shared == SelectSeq(benchmark_data, LAMBDA row : HasDate(etf_data, row.date))
    IN  Eager([i \in DOMAIN shared |->
            [date      |-> shared[i].date,
             benchmark |-> R(shared[i].adjusted_close),
             etf       |-> R(RowAt(etf_data, shared[i].date).adjusted_close)]])

\* Series.pct_change() at row i of column col: NaN on the first row.
PctChange(col, i) ==
    IF i = 1 THEN NaN ELSE RSub(RDiv(col[i], col[i - 1]), R(1))

\* (1 + returns).cumprod() over the rows dropna keeps (rows 2..Len of col):
\* entry k is the product up to row k + 1.  acc holds the entries so far.
RECURSIVE CumProd(_, _)
CumProd(col, acc) ==
    LET i == Len(acc) + 2
    IN  IF i > Len(col) THEN acc
        ELSE CumProd(col, Append(acc,
                 RMul(IF acc = <<>> THEN R(1) ELSE Last(acc),
                      RAdd(R(1), PctChange(col, i)))))

\* A faulty relative strength: each day's ratio of (1 + return) alone, without
\* the cumulative products.
DailyRatioSeries(benchmark_data, etf_data) ==
    LET combined == Combined(benchmark_data, etf_data)
        etf       == Eager([i \in DOMAIN combined |-> combined[i].etf])
        benchmark == Eager([i \in DOMAIN combined |-> combined[i].benchmark])
    IN  Eager([k \in 1..(Len(combined) - 1) |->
            [date  |-> combined[k + 1].date,
             value |-> RDiv(RAdd(R(1), PctChange(etf, k + 1)),
                            RAdd(R(1), PctChange(benchmark, k + 1)))]])

\* combined['relative_strength'] of one instrument: a series of [date, value],
\* one entry per joined row but the first (dropna).
RelativeStrengthSeries(benchmark_data, etf_data) ==
    LET combined == Combined(benchmark_data, etf_data)
        etf_cum_returns ==
            CumProd(Eager([i \in DOMAIN combined |-> combined[i].etf]), <<>>)
        benchmark_cum_returns ==
            CumProd(Eager([i \in DOMAIN combined |-> combined[i].benchmark]), <<>>)
    IN  Eager([k \in 1..(Len(combined) - 1) |->
            [date  |-> combined[k + 1].date,
             value |-> RDiv(etf_cum_returns[k], benchmark_cum_returns[k])]])

\* Lines 81-82: combined['rs_ma_<window>'] at entry i of the series, the mean of
\* the last `window` values, NaN on the first window-1 entries.  Line 85 stores
\* combined['relative_strength']; no statement reads this column.
RsMa(series, i, window) ==
    IF i < window THEN NaN
    ELSE RDiv(RSum([j \in DOMAIN series |-> series[j].value], i - window + 1, i), R(window))

\* A faulty loop: the first instrument without a joined row ends it (break for
\* continue).
RsColumnsUntilSkip(db, etf_symbols, benchmark_symbol, start_date, end_date) ==
    LET bench   == get_price_volume_data(db, benchmark_symbol, start_date, end_date)
        joins(s) == Combined(bench, get_price_volume_data(db, s, start_date, end_date)) # <<>>
        skipped == {i \in DOMAIN etf_symbols : ~joins(etf_symbols[i])}
    IN  IF skipped = {} THEN etf_symbols
        ELSE SubSeq(etf_symbols, 1, (CHOOSE i \in skipped : \A j \in skipped : i <= j) - 1)

\* The instruments that get a column: those with a row in range and a date in
\* common with the benchmark (the others are skipped), in etf_symbols order.
RsColumns(db, etf_symbols, benchmark_symbol, start_date, end_date) ==
    LET bench == get_price_volume_data(db, benchmark_symbol, start_date, end_date)
    IN  SelectSeq(etf_symbols,
            LAMBDA s : Combined(bench, get_price_volume_data(db, s, start_date, end_date)) # <<>>)

\* A faulty call: no look at the benchmark's rows before the loop.
calculate_unchecked(db, etf_symbols, benchmark_symbol, start_date, end_date) ==
    LET bench   == get_price_volume_data(db, benchmark_symbol, start_date, end_date)
        columns == RsColumns(db, etf_symbols, benchmark_symbol, start_date, end_date)
        series  == Eager([k \in DOMAIN columns |->
                       RelativeStrengthSeries(bench,
                           get_price_volume_data(db, columns[k], start_date, end_date))])
        index   == SortedSeq(UNION {Dates(series[k]) : k \in DOMAIN columns})
    IN  [error   |-> "",
         columns |-> columns,
         rows    |-> Eager([i \in DOMAIN index |->
                         [date |-> index[i],
                          rs   |-> Eager([k \in DOMAIN columns |->
                                      IF HasDate(series[k], index[i])
                                      THEN RowAt(series[k], index[i]).value
                                      ELSE NaN])]])]

\* calculate_relative_strength: "error" when the benchmark has no row in range,
\* else the table pd.DataFrame(relative_strength_results): the union of the
\* series' dates in order, one column per instrument, NaN where it has no value.
calculate_relative_strength(db, etf_symbols, benchmark_symbol, start_date, end_date) ==
    LET bench   == get_price_volume_data(db, benchmark_symbol, start_date, end_date)
        columns == RsColumns(db, etf_symbols, benchmark_symbol, start_date, end_date)
        series  == Eager([k \in DOMAIN columns |->
                       RelativeStrengthSeries(bench,
                           get_price_volume_data(db, columns[k], start_date, end_date))])
        index   == SortedSeq(UNION {Dates(series[k]) : k \in DOMAIN columns})
    IN  IF bench = <<>>
        THEN [error |-> "ValueError", columns |-> <<>>, rows |-> <<>>]
        ELSE [error   |-> "",
              columns |-> columns,
              rows    |-> Eager([i \in DOMAIN index |->
                              [date |-> index[i],
                               rs   |-> Eager([k \in DOMAIN columns |->
                                           IF HasDate(series[k], index[i])
                                           THEN RowAt(series[k], index[i]).value
                                           ELSE NaN])]])]

\* Lines 88-95: the RelativeStrength records built from one instrument's series.
RsRecords(series, etf_symbol, benchmark) ==
    {[date              |-> series[i].date,
      etf_symbol        |-> etf_symbol,
      benchmark_symbol  |-> benchmark,
      relative_strength |-> series[i].value] : i \in DOMAIN series}

\* session.merge of a set of records and session.commit: an upsert on the key
\* (date, etf_symbol, benchmark_symbol).
Upsert(table, records) ==
    LET key(r) == <<r.date, r.etf_symbol, r.benchmark_symbol>>
        keys   == {key(r) : r \in records}
    IN  {r \in table : key(r) \notin keys} \cup records

\* Lines 43-97: the table of RelativeStrength records after the commits of the
\* first `upto` instruments that get a column.
Persisted(table, db, etf_symbols, benchmark_symbol, start_date, end_date, upto) ==
    LET bench   == get_price_volume_data(db, benchmark_symbol, start_date, end_date)
        columns == RsColumns(db, etf_symbols, benchmark_symbol, start_date, end_date)
    IN  Upsert(table,
               UNION {RsRecords(RelativeStrengthSeries(bench,
                                    get_price_volume_data(db, columns[k], start_date, end_date)),
                                columns[k], benchmark_symbol) :
                      k \in 1..upto})

\* The non-NaN values of column k of a table, as a sequence in row order.
ColumnValues(rows, k) ==
    LET kept == SelectSeq(rows, LAMBDA row : ~IsNaN(row.rs[k]))
    IN  Eager([i \in DOMAIN kept |-> kept[i].rs[k]])

\* Series.mean(): the mean of the non-NaN values, NaN when there is none.
Mean(values) ==
    IF Len(values) = 0 THEN NaN ELSE RDiv(RSum(values, 1, Len(values)), R(Len(values)))

\* Series.std() squared (ddof=1): NaN with fewer than two non-NaN values.
Variance(values) ==
    LET m  == Mean(values)
        sq == [i \in DOMAIN values |-> RMul(RSub(values[i], m), RSub(values[i], m))]
    IN  IF Len(values) < 2 THEN NaN
        ELSE RDiv(RSum(sq, 1, Len(values)), R(Len(values) - 1))

\* The number num / sqrt(var): a z-score.  It is NaN when num or var is NaN and
\* when var = 0 (a constant column: 0 / 0).
Surd(num, var) == [num |-> num, var |-> var]

SurdIsNaN(z) == IsNaN(z.num) \/ IsNaN(z.var) \/ z.var[1] = 0

\* a < b for two z-scores that are not NaN, comparing squares on each side of 0.
SurdLt(a, b) ==
    LET sa == Sgn(a.num[1])
        sb == Sgn(b.num[1])
        qa == RDiv(RMul(a.num, a.num), a.var)
        qb == RDiv(RMul(b.num, b.num), b.var)
    IN  IF sa # sb THEN sa < sb
        ELSE IF sa = 0 THEN FALSE
        ELSE IF sa > 0 THEN RLt(qa, qb)
        ELSE RLt(qb, qa)

\* normalize_relative_strength(rs_df, 'z_score'): (rs_df - rs_df.mean()) /
\* rs_df.std(), column by column.
normalize_relative_strength(rs_df) ==
    LET mean == Eager([k \in DOMAIN rs_df.columns |-> Mean(ColumnValues(rs_df.rows, k))])
        var  == Eager([k \in DOMAIN rs_df.columns |-> Variance(ColumnValues(rs_df.rows, k))])
    IN  [columns |-> rs_df.columns,
         rows    |-> Eager([i \in DOMAIN rs_df.rows |->
                        [date |-> rs_df.rows[i].date,
                         z    |-> Eager([k \in DOMAIN rs_df.columns |->
                                     Surd(RSub(rs_df.rows[i].rs[k], mean[k]), var[k])])]])]

\* Series.min() and Series.max() of the non-NaN values: NaN when there is none.
ColumnMin(values) ==
    IF Len(values) = 0 THEN NaN
    ELSE values[CHOOSE i \in DOMAIN values : \A j \in DOMAIN values : RLe(values[i], values[j])]

ColumnMax(values) ==
    IF Len(values) = 0 THEN NaN
    ELSE values[CHOOSE i \in DOMAIN values : \A j \in DOMAIN values : RGe(values[i], values[j])]

\* A plain number as a score: x / sqrt(1).
Plain(x) == Surd(x, R(1))

\* Lines 119-121: (rs_df - rs_df.min()) / (rs_df.max() - rs_df.min()).
MinMaxTable(rs_df) ==
    LET lo == Eager([k \in DOMAIN rs_df.columns |-> ColumnMin(ColumnValues(rs_df.rows, k))])
        hi == Eager([k \in DOMAIN rs_df.columns |-> ColumnMax(ColumnValues(rs_df.rows, k))])
    IN  [columns |-> rs_df.columns,
         rows    |-> Eager([i \in DOMAIN rs_df.rows |->
                        [date |-> rs_df.rows[i].date,
                         z    |-> Eager([k \in DOMAIN rs_df.columns |->
                                     Plain(RDiv(RSub(rs_df.rows[i].rs[k], lo[k]),
                                                RSub(hi[k], lo[k])))])]])]

\* Lines 123-125: rs_df.rank(pct=True): the average rank of a value among the
\* non-NaN values of its column, over their number; NaN stays NaN.
PercentRank(values, x) ==
    LET less  == Cardinality({j \in DOMAIN values : RLt(values[j], x)})
        equal == Cardinality({j \in DOMAIN values : values[j] = x})
    IN  IF IsNaN(x) THEN NaN
        ELSE RDiv(RAdd(R(less), RDiv(R(equal + 1), R(2))), R(Len(values)))

PercentRankTable(rs_df) ==
    LET values == Eager([k \in DOMAIN rs_df.columns |-> ColumnValues(rs_df.rows, k)])
    IN  [columns |-> rs_df.columns,
         rows    |-> Eager([i \in DOMAIN rs_df.rows |->
                        [date |-> rs_df.rows[i].date,
                         z    |-> Eager([k \in DOMAIN rs_df.columns |->
                                     Plain(PercentRank(values[k], rs_df.rows[i].rs[k]))])]])]

\* A faulty dispatch: a method it does not know is taken for the z-score.
normalize_or_z_score(rs_df, method_) ==
    LET table == IF method_ = "min_max" THEN MinMaxTable(rs_df)
                 ELSE IF method_ = "percent_rank" THEN PercentRankTable(rs_df)
                 ELSE normalize_relative_strength(rs_df)
    IN  [error |-> "", columns |-> table.columns, rows |-> table.rows]

\* normalize_relative_strength(rs_df, method): the table of the method, or
\* "error" for a method that is none of the three.
normalize_by_method(rs_df, method_) ==
    LET table == IF method_ = "z_score" THEN normalize_relative_strength(rs_df)
                 ELSE IF method_ = "min_max" THEN MinMaxTable(rs_df)
                 ELSE PercentRankTable(rs_df)
    IN  IF method_ \in {"z_score", "min_max", "percent_rank"}
        THEN [error |-> "", columns |-> table.columns, rows |-> table.rows]
        ELSE [error |-> "ValueError", columns |-> <<>>, rows |-> <<>>]

\* normalized_rs.iloc[-lookback:].mean() for column k: the mean of the non-NaN
\* z-scores of the last `lookback` rows.
RecentRs(normalized_rs, k, lookback) ==
    LET n      == Len(normalized_rs.rows)
        recent == SubSeq(normalized_rs.rows, Max2(1, n - lookback + 1), n)
        kept   == SelectSeq(recent, LAMBDA row : ~SurdIsNaN(row.z[k]))
        nums   == Eager([i \in DOMAIN kept |-> kept[i].z[k].num])
    IN  IF Len(kept) = 0 THEN Surd(NaN, NaN)
        ELSE Surd(Mean(nums), kept[1].z[k].var)

\* A faulty selection: the first n symbols with a score, in column order.
FirstScored(series, n) ==
    LET valid == SelectSeq(series, LAMBDA e : ~SurdIsNaN(e.score))
        taken == SubSeq(valid, 1, IF n < Len(valid) THEN Max2(n, 0) ELSE Len(valid))
    IN  [i \in DOMAIN taken |-> taken[i].symbol]

\* Series.nlargest(n).index.tolist() of a series given as a sequence of
\* [symbol, score] entries in column order: NaN dropped, largest first, ties in
\* column order.
RECURSIVE NLargest(_, _)
NLargest(series, n) ==
    LET valid == SelectSeq(series, LAMBDA e : ~SurdIsNaN(e.score))
        best  == CHOOSE i \in DOMAIN valid :
                    /\ \A j \in DOMAIN valid : ~SurdLt(valid[i].score, valid[j].score)
                    /\ \A j \in 1..(i - 1) : SurdLt(valid[j].score, valid[i].score)
    IN  IF n <= 0 \/ valid = <<>> THEN <<>>
        ELSE <<valid[best].symbol>> \o
             NLargest(SelectSeq(valid, LAMBDA e : e.symbol # valid[best].symbol), n - 1)

\* get_sector_rotation(normalized_rs, top_n, lookback_period).
get_sector_rotation(normalized_rs, n, lookback) ==
    LET recent_rs == Eager([k \in DOMAIN normalized_rs.columns |->
                         [symbol |-> normalized_rs.columns[k],
                          score  |-> RecentRs(normalized_rs, k, lookback)]])
    IN  NLargest(recent_rs, n)

(***************************************************************************)
(* VolumeSignalGenerator.  A frame is a sequence of rows; each method      *)
(* returns the frame with its columns added.  volume_change,               *)
(* price_volatility and volume_spike are columns no signal reads; they are *)
(* left out.                                                               *)
(***************************************************************************)
price_ma_period == 20

volume_ma_period == 20

trend_days == 5

obv_shift == 5

\* threshold_volume = 1.5 (its default, and what main.py passes).
threshold_volume == <<3, 2>>

\* Series.rolling(window).mean() at row i: NaN on the first window-1 rows.
RollingMean(col, i, window) ==
    IF i < window THEN NaN
    ELSE RDiv(RSum(col, i - window + 1, i), R(window))

\* A faulty increment: the volume of every row whose close moved, up or down.
ObvDeltaUnsigned(data, i) ==
    IF i = 1 THEN 0
    ELSE IF data[i].adjusted_close # data[i - 1].adjusted_close THEN data[i].volume
    ELSE 0

\* The OBV increment of row i: +volume when the close rose from the row before,
\* -volume when it fell, 0 otherwise (and on the first row).
ObvDelta(data, i) ==
    IF i = 1 THEN 0
    ELSE IF data[i].adjusted_close > data[i - 1].adjusted_close THEN data[i].volume
    ELSE IF data[i].adjusted_close < data[i - 1].adjusted_close THEN -data[i].volume
    ELSE 0

\* data['obv'].cumsum(): acc holds the sums of the rows so far.
RECURSIVE ObvColumn(_, _)
ObvColumn(data, acc) ==
    LET i == Len(acc) + 1
    IN  IF i > Len(data) THEN acc
        ELSE ObvColumn(data, Append(acc,
                 (IF acc = <<>> THEN 0 ELSE Last(acc)) + ObvDelta(data, i)))

\* calculate_volume_indicators(data): price_ma, volume_ma, relative_volume, obv.
calculate_volume_indicators(data) ==
    LET close  == Eager([i \in DOMAIN data |-> R(data[i].adjusted_close)])
        volume == Eager([i \in DOMAIN data |-> R(data[i].volume)])
        obv    == ObvColumn(data, <<>>)
    IN  Eager([i \in DOMAIN data |->
            LET vma == RollingMean(volume, i, volume_ma_period)
            IN  [date            |-> data[i].date,
                 adjusted_close  |-> data[i].adjusted_close,
                 volume          |-> data[i].volume,
                 price_ma        |-> RollingMean(close, i, price_ma_period),
                 volume_ma       |-> vma,
                 relative_volume |-> RDiv(volume[i], vma),
                 obv             |-> obv[i]]])

\* flag.rolling(window=days).sum() >= days * 0.8 at row i, for a boolean column:
\* false on the first days-1 rows.
Trend(flag, i, days) ==
    /\ i >= days
    /\ RGe(R(Cardinality({j \in (i - days + 1)..i : flag[j]})), RMul(R(days), <<4, 5>>))

\* generate_buy_signals(data, threshold_volume): data['buy_signal'], row by row.
generate_buy_signals(data, threshold) ==
    LET above_ma == Eager([i \in DOMAIN data |->
                        RGt(R(data[i].adjusted_close), data[i].price_ma)])
    IN  Eager([i \in DOMAIN data |->
            LET uptrend        == Trend(above_ma, i, trend_days)
                high_volume    == RGt(data[i].relative_volume, threshold)
                obv_increasing == i > obv_shift /\ data[i].obv > data[i - obv_shift].obv
            IN  uptrend /\ high_volume /\ obv_increasing])

\* A faulty sell rule: high volume alone.
sell_on_high_volume(data, threshold) ==
    Eager([i \in DOMAIN data |-> RGt(data[i].relative_volume, threshold)])

\* generate_sell_signals(data, threshold_volume): data['sell_signal'], row by row.
generate_sell_signals(data, threshold) ==
    LET below_ma == Eager([i \in DOMAIN data |->
                        RLt(R(data[i].adjusted_close), data[i].price_ma)])
    IN  Eager([i \in DOMAIN data |->
            LET downtrend      == Trend(below_ma, i, trend_days)
                high_volume    == RGt(data[i].relative_volume, threshold)
                obv_decreasing == i > obv_shift /\ data[i].obv < data[i - obv_shift].obv
            IN  downtrend /\ high_volume /\ obv_decreasing])

(***************************************************************************)
(* Python dicts in insertion order (self.positions): a sequence of         *)
(* [symbol, shares] entries.                                               *)
(***************************************************************************)
DictKeys(dict) == [i \in DOMAIN dict |-> dict[i].symbol]

DictHas(dict, k) == \E i \in DOMAIN dict : dict[i].symbol = k

DictGet(dict, k) == dict[CHOOSE i \in DOMAIN dict : dict[i].symbol = k].shares

\* dict[k] = v: in place when k is a key, appended otherwise.
DictSet(dict, k, v) ==
    IF DictHas(dict, k)
    THEN [i \in DOMAIN dict |-> IF dict[i].symbol = k THEN [symbol |-> k, shares |-> v] ELSE dict[i]]
    ELSE Append(dict, [symbol |-> k, shares |-> v])

\* del dict[k]
DictDel(dict, k) == SelectSeq(dict, LAMBDA e : e.symbol # k)

(***************************************************************************)
(* The calendar: pd.date_range(start, end, freq='B').                      *)
(***************************************************************************)
IsBusinessDay(d) == d % 7 < 5

BusinessDays(start, end) ==
    SelectSeq([i \in 1..(end - start + 1) |-> start + i - 1], IsBusinessDay)

(***************************************************************************)
(* SectorRotationBacktester.run_backtest: one trading day of the loop, as  *)
(* operators of the portfolio st = [cash, positions, portfolio_value,      *)
(* trades, last_rebalance_date] (last_rebalance_date is <<>> for None and  *)
(* <<d>> for a date).                                                      *)
(***************************************************************************)
initial_capital == 10000

lookback_period == 20

recent_rows == 5

AdjClose(price_data, symbol, d) == R(RowAt(price_data[symbol], d).adjusted_close)

\* A faulty test: only the first tracked instrument is looked at.
FirstTradable(price_data, etf_symbols, d) == HasDate(price_data[etf_symbols[1]], d)

\* Lines 66-70: every tracked instrument has a bar on day d.
Tradable(price_data, etf_symbols, d) ==
    \A i \in DOMAIN etf_symbols : HasDate(price_data[etf_symbols[i]], d)

\* Lines 76-81: cash plus shares x adjusted_close of every position priced on d.
MarkToMarket(price_data, cash_, positions_, d) ==
    LET priced == SelectSeq(positions_, LAMBDA e : HasDate(price_data[e.symbol], d))
        value  == [i \in DOMAIN priced |->
                      RMul(priced[i].shares, AdjClose(price_data, priced[i].symbol, d))]
    IN  RAdd(cash_, RSum(value, 1, Len(priced)))

\* A faulty cadence: one day late.
RebalanceDueLate(last, d, freq) == IF last = <<>> THEN TRUE ELSE d - last[1] > freq

\* Line 89: no rebalance yet, or rebalance_freq calendar days since the last.
RebalanceDue(last, d, freq) == IF last = <<>> THEN TRUE ELSE d - last[1] >= freq

\* Line 91: date_str in rs_data.index
InRsIndex(rs_data, d) == \E i \in DOMAIN rs_data.rows : rs_data.rows[i].date = d

\* rs_data.loc[:date_str]
RsUpTo(rs_data, d) ==
    [columns |-> rs_data.columns,
     rows    |-> SelectSeq(rs_data.rows, LAMBDA row : row.date <= d)]

\* A faulty ranking: one sector more than asked for.
TopSectorsAndOne(rs_data, d, n) ==
    get_sector_rotation(normalize_relative_strength(RsUpTo(rs_data, d)), n + 1, lookback_period)

\* Lines 92-94: the ranking of day d.
TopSectors(rs_data, d, n) ==
    get_sector_rotation(normalize_relative_strength(RsUpTo(rs_data, d)), n, lookback_period)

\* A faulty signal check: the last 5 rows of all the bars loaded, not of the
\* bars up to day d.
LatestBuySignal(price_data, sector, d, threshold) ==
    LET sector_data == calculate_volume_indicators(price_data[sector])
        buy_signal  == generate_buy_signals(sector_data, threshold)
        n           == Len(sector_data)
    IN  \E i \in Max2(1, n - recent_rows + 1)..n : buy_signal[i]

\* Lines 101-108: a buy signal on one of the last 5 rows of the sector's bars
\* up to day d.
RecentBuySignal(price_data, sector, d, threshold) ==
    LET sector_data == calculate_volume_indicators(UpTo(price_data[sector], d))
        buy_signal  == generate_buy_signals(sector_data, threshold)
        n           == Len(sector_data)
    IN  \E i \in Max2(1, n - recent_rows + 1)..n : buy_signal[i]

\* A faulty selection: every top sector, signal or not.
TopSectorsUnfiltered(price_data, rs_data, d, n, threshold) == TopSectors(rs_data, d, n)

\* Lines 97-109: the top sectors with a bar on d and a recent buy signal.
BuyCandidates(price_data, rs_data, d, n, threshold) ==
    SelectSeq(TopSectors(rs_data, d, n),
        LAMBDA sector : /\ HasDate(price_data[sector], d)
                        /\ RecentBuySignal(price_data, sector, d, threshold))

SellRecord(d, symbol, shares, price) ==
    [date |-> d, symbol |-> symbol, action |-> "SELL", shares |-> shares,
     price |-> price, value |-> RMul(shares, price)]

\* A faulty liquidation: the positions are turned into cash and no SELL is
\* recorded.
LiquidateUnrecorded(st, items, k, price_data, d) ==
    [st EXCEPT !.cash = MarkToMarket(price_data, st.cash, items, d),
               !.positions = <<>>]

\* Lines 112-127: sell every position that has a price on d; `items` is
\* list(self.positions.items()) and k the next entry to visit.
RECURSIVE Liquidate(_, _, _, _, _)
Liquidate(st, items, k, price_data, d) ==
    IF k > Len(items) THEN st
    ELSE LET symbol == items[k].symbol
             shares == items[k].shares
         IN  IF HasDate(price_data[symbol], d)
             THEN LET price == AdjClose(price_data, symbol, d)
                  IN  Liquidate([st EXCEPT
                                    !.cash = RAdd(@, RMul(shares, price)),
                                    !.trades = Append(@, SellRecord(d, symbol, shares, price)),
                                    !.positions = DictDel(@, symbol)],
                                items, k + 1, price_data, d)
             ELSE Liquidate(st, items, k + 1, price_data, d)

\* Lines 133-147: buy each candidate with allocation_per_etf of cash.
RECURSIVE Invest(_, _, _, _, _, _)
Invest(st, buy_candidates, k, allocation_per_etf, price_data, d) ==
    IF k > Len(buy_candidates) THEN st
    ELSE LET symbol == buy_candidates[k]
         IN  IF HasDate(price_data[symbol], d)
             THEN LET price  == AdjClose(price_data, symbol, d)
                      shares == RDiv(allocation_per_etf, price)
                  IN  Invest([st EXCEPT
                                 !.positions = DictSet(@, symbol, shares),
                                 !.cash = RSub(@, allocation_per_etf),
                                 !.trades = Append(@,
                                     [date |-> d, symbol |-> symbol, action |-> "BUY",
                                      shares |-> shares, price |-> price,
                                      value |-> allocation_per_etf])],
                             buy_candidates, k + 1, allocation_per_etf, price_data, d)
             ELSE Invest(st, buy_candidates, k + 1, allocation_per_etf, price_data, d)

\* A faulty purchase: the shares are booked and the cash is not debited.
InvestOnCredit(st, buy_candidates, price_data, d) ==
    IF buy_candidates = <<>> THEN st
    ELSE [Invest(st, buy_candidates, 1,
                 RDiv(st.cash, R(Len(buy_candidates))), price_data, d)
             EXCEPT !.cash = st.cash]

\* A faulty purchase: all the cash goes to the first candidate.
InvestInFirst(st, buy_candidates, price_data, d) ==
    IF buy_candidates = <<>> THEN st
    ELSE Invest(st, <<buy_candidates[1]>>, 1, st.cash, price_data, d)

\* Lines 130-147.
InvestAll(st, buy_candidates, price_data, d) ==
    IF buy_candidates = <<>> THEN st
    ELSE Invest(st, buy_candidates, 1,
                RDiv(st.cash, R(Len(buy_candidates))), price_data, d)

\* Lines 76-86: the day's sample.
Sample(st, price_data, d) ==
    [st EXCEPT !.portfolio_value =
        Append(@, [date |-> d, value |-> MarkToMarket(price_data, st.cash, st.positions, d)])]

\* Lines 90-149: the rebalance of day d.
Rebalance(st, price_data, rs_data, d, n, threshold) ==
    LET buy_candidates == BuyCandidates(price_data, rs_data, d, n, threshold)
        sold           == Liquidate(st, st.positions, 1, price_data, d)
        bought         == InvestAll(sold, buy_candidates, price_data, d)
    IN  [bought EXCEPT !.last_rebalance_date = <<d>>]

\* A faulty iteration: a due day without a relative-strength row counts as a
\* rebalance.
RotationDayAdvancing(st, price_data, rs_data, etf_symbols, d, freq, n, threshold) ==
    IF ~Tradable(price_data, etf_symbols, d) THEN st
    ELSE LET sampled == Sample(st, price_data, d)
         IN  IF ~RebalanceDue(st.last_rebalance_date, d, freq) THEN sampled
             ELSE IF InRsIndex(rs_data, d)
                  THEN Rebalance(sampled, price_data, rs_data, d, n, threshold)
                  ELSE [sampled EXCEPT !.last_rebalance_date = <<d>>]

\* Lines 62-149: one iteration of the loop over dates.
RotationDay(st, price_data, rs_data, etf_symbols, d, freq, n, threshold) ==
    IF ~Tradable(price_data, etf_symbols, d) THEN st
    ELSE LET sampled == Sample(st, price_data, d)
         IN  IF RebalanceDue(st.last_rebalance_date, d, freq) /\ InRsIndex(rs_data, d)
             THEN Rebalance(sampled, price_data, rs_data, d, n, threshold)
             ELSE sampled

(***************************************************************************)
(* The inputs: a bounded family of price databases.  An instrument trades  *)
(* at its base price with volume BaseVolume until the first jump day,      *)
(* moves to its k-th level on the k-th jump day, has volume SpikeVolume on *)
(* its spike days (three bars after a jump) and may lack the bars of its   *)
(* gap days.  There is one bar per business day of 0..MaxDay otherwise.    *)
(***************************************************************************)
MaxDay == 46

BaseVolume == 1

SpikeVolume == 3

FirstJump == 28

JumpDays == <<FirstJump, FirstJump + 7, FirstJump + 14>>

SpikeDays == [k \in DOMAIN JumpDays |-> JumpDays[k] + 3]

\* A missing bar the day after the second jump.
GapDay == JumpDays[2] + 1

etf_symbols == <<"XLK", "XLF", "XLE">>

benchmark_symbol == "SPY"

Profile(base, levels, spikes, gaps) ==
    [base |-> base, levels |-> levels, spikes |-> spikes, gaps |-> gaps]

\* The level of the last jump on or before day d that the profile has a level for.
PriceOn(profile, d) ==
    LET past == {k \in DOMAIN profile.levels : JumpDays[k] <= d}
    IN  IF past = {} THEN profile.base
        ELSE profile.levels[CHOOSE k \in past : \A j \in past : j <= k]

VolumeOn(profile, d) == IF d \in profile.spikes THEN SpikeVolume ELSE BaseVolume

\* The bars of one symbol.
Bars(profile) ==
    LET all  == [d \in 1..(MaxDay + 1) |->
                    [date           |-> d - 1,
                     adjusted_close |-> PriceOn(profile, d - 1),
                     volume         |-> VolumeOn(profile, d - 1)]]
    IN  SelectSeq(all, LAMBDA row : IsBusinessDay(row.date) /\ row.date \notin profile.gaps)

(***************************************************************************)
(* Rotation runs: three instruments around BasePrice and a flat benchmark. *)
(***************************************************************************)
BasePrice == 2

TopPrice == 3

BothSpikes == {SpikeDays[1], SpikeDays[2]}

\* Profiles of the first instrument: any first level, then flat or one up.
MoverProfiles ==
    {Profile(BasePrice, <<l1, l1 + up>>, spikes, {}) :
        l1 \in (BasePrice - 1)..TopPrice, up \in {0, 1}, spikes \in {{}, BothSpikes}}

\* Profiles of the second instrument: up at the first jump, flat or up again.
RiserProfiles ==
    {Profile(BasePrice, <<TopPrice, TopPrice + up>>, BothSpikes, {}) : up \in {0, 1}}

\* Profiles of the third instrument: flat, maybe without a bar on the gap day
\* and two days later.
QuietProfiles == {Profile(BasePrice, <<>>, {}, gaps) : gaps \in {{}, {GapDay, GapDay + 2}}}

\* Profiles of the benchmark: flat, maybe a gap or no bar on day 0.
BenchmarkProfiles == {Profile(BasePrice, <<>>, {}, gaps) : gaps \in {{}, {GapDay}, {0}}}

Databases ==
    {[s \in Range(etf_symbols) \cup {benchmark_symbol} |->
         Bars(IF s = etf_symbols[1] THEN p1
              ELSE IF s = etf_symbols[2] THEN p2
              ELSE IF s = etf_symbols[3] THEN p3
              ELSE pb)] :
        p1 \in MoverProfiles, p2 \in RiserProfiles,
        p3 \in QuietProfiles, pb \in BenchmarkProfiles}

\* The arguments of run_backtest.
StartDates == {0, FirstJump}

\* The rotation runs end on the day of a rebalance (the day after the last
\* jump), the single-instrument runs on the last day of the database.
LastRebalance == JumpDays[3] + 1

RotEndDates == {0, FirstJump, LastRebalance}

EndDates == {0, FirstJump, MaxDay}

RebalanceFreqs == {7, 20}

TopNs == {1, 2}

(***************************************************************************)
(* State.  db is the price_data table of the database.  The backtester's   *)
(* fields are cash, positions, portfolio_value and trades; the rest are    *)
(* the locals of the run_backtest call in progress: dates and di (the      *)
(* next date to visit) in the rotation run, data and ri (the next row) in  *)
(* the single-instrument run.  pc is "idle" before the call, "loop" inside *)
(* the loop, "done" after a return and "error" after an exception left     *)
(* run_backtest.                                                           *)
(***************************************************************************)
VARIABLES db, pc, start_date, end_date, rebalance_freq, top_n,
          price_data, rs_data, dates, di, last_rebalance_date,
          data, ri, holding, entry_price,
          cash, positions, portfolio_value, trades, result,
          backtester, previous, sink, window, method, normalized_rs, top_sectors

vars == <<db, pc, start_date, end_date, rebalance_freq, top_n,
          price_data, rs_data, dates, di, last_rebalance_date,
          data, ri, holding, entry_price,
          cash, positions, portfolio_value, trades, result,
          backtester, previous, sink, window, method, normalized_rs, top_sectors>>

args == <<start_date, end_date, rebalance_freq, top_n>>

loaded == <<price_data, rs_data, dates>>

rot_locals == <<price_data, rs_data, dates, di, last_rebalance_date, rebalance_freq, top_n>>

vol_locals == <<data, ri, holding, entry_price>>

\* What the analyzer's caller holds: the arguments and the tables returned.
rs_locals == <<window, method, normalized_rs, top_sectors>>

\* What a step of a run leaves alone: the database, the class of the
\* backtester, the record of its previous run and the analyzer caller's
\* locals.
outside == <<db, sink, backtester, previous, rs_locals>>

NoPrevious == [error |-> "none"]

\* Nothing has run yet: no previous run, an empty RelativeStrength table and
\* nothing held by the analyzer's caller.
NothingRun ==
    /\ previous = NoPrevious
    /\ sink = {}
    /\ window = 0 /\ method = ""
    /\ normalized_rs = [error |-> "", columns |-> <<>>, rows |-> <<>>]
    /\ top_sectors = <<>>

NoResult == [error |-> "none"]

NoTable == [error |-> "", columns |-> <<>>, rows |-> <<>>]

\* The portfolio as the record the day operators work on.
Portfolio ==
    [cash |-> cash, positions |-> positions, portfolio_value |-> portfolio_value,
     trades |-> trades, last_rebalance_date |-> last_rebalance_date]

SetPortfolio(st) ==
    /\ cash' = st.cash
    /\ positions' = st.positions
    /\ portfolio_value' = st.portfolio_value
    /\ trades' = st.trades
    /\ last_rebalance_date' = st.last_rebalance_date

\* SectorRotationBacktester.__init__ on a database of the family.
RotInit ==
    /\ db \in Databases
    /\ backtester = "SectorRotationBacktester"
    /\ NothingRun
    /\ pc = "idle"
    /\ start_date = 0 /\ end_date = 0 /\ rebalance_freq = 0 /\ top_n = 0
    /\ price_data = <<>> /\ rs_data = NoTable /\ dates = <<>> /\ di = 1
    /\ last_rebalance_date = <<>>
    /\ data = <<>> /\ ri = 1 /\ holding = FALSE /\ entry_price = R(0)
    /\ cash = R(initial_capital)
    /\ positions = <<>>
    /\ portfolio_value = <<>>
    /\ trades = <<>>
    /\ result = NoResult

\* A faulty call: the positions of the previous run are kept.
RotCallKeepingPositions(start, end, freq, n) ==
    /\ start_date' = start /\ end_date' = end /\ rebalance_freq' = freq /\ top_n' = n
    /\ dates' = BusinessDays(start, end)
    /\ cash' = R(initial_capital)
    /\ portfolio_value' = <<>>
    /\ trades' = <<>>
    /\ price_data' = [s \in DOMAIN db |-> get_price_volume_data(db, s, start, end)]
    /\ rs_data' = calculate_relative_strength(db, etf_symbols, benchmark_symbol, start, end)
    /\ last_rebalance_date' = <<>>
    /\ di' = 1
    /\ IF rs_data'.error # ""
       THEN pc' = "error" /\ result' = [error |-> rs_data'.error]
       ELSE pc' = "loop" /\ result' = NoResult
    /\ sink' = Persisted(sink, db, etf_symbols, benchmark_symbol, start, end,
                         Len(rs_data'.columns))
    /\ UNCHANGED <<db, backtester, rs_locals, vol_locals, positions>>

\* Lines 36-60: the call, up to the loop.  calculate_relative_strength raises
\* ValueError when the benchmark has no row in range.
RotCall(start, end, freq, n) ==
    /\ start_date' = start /\ end_date' = end /\ rebalance_freq' = freq /\ top_n' = n
    /\ dates' = BusinessDays(start, end)
    /\ positions' = <<>>
    /\ cash' = R(initial_capital)
    /\ portfolio_value' = <<>>
    /\ trades' = <<>>
    /\ price_data' = [s \in DOMAIN db |-> get_price_volume_data(db, s, start, end)]
    /\ rs_data' = calculate_relative_strength(db, etf_symbols, benchmark_symbol, start, end)
    /\ last_rebalance_date' = <<>>
    /\ di' = 1
    /\ IF rs_data'.error # ""
       THEN pc' = "error" /\ result' = [error |-> rs_data'.error]
       ELSE pc' = "loop" /\ result' = NoResult
    /\ sink' = Persisted(sink, db, etf_symbols, benchmark_symbol, start, end,
                         Len(rs_data'.columns))
    /\ UNCHANGED <<db, backtester, rs_locals, vol_locals>>

\* The first call on the instance.
RotRunBacktest(start, end, freq, n) ==
    /\ pc = "idle"
    /\ RotCall(start, end, freq, n)
    /\ UNCHANGED previous

InLoop == pc = "loop" /\ di <= Len(dates)

Today == dates[di]

\* Lines 66-73: a day some tracked instrument has no bar for.
RotSkipDay ==
    /\ InLoop
    /\ ~Tradable(price_data, etf_symbols, Today)
    /\ SetPortfolio(RotationDay(Portfolio, price_data, rs_data, etf_symbols, Today,
                                rebalance_freq, top_n, threshold_volume))
    /\ di' = di + 1
    /\ UNCHANGED <<outside, pc, args, loaded, vol_locals, result>>

\* Lines 75-89: a processed day on which no rebalance is due.
RotHoldDay ==
    /\ InLoop
    /\ Tradable(price_data, etf_symbols, Today)
    /\ ~RebalanceDue(last_rebalance_date, Today, rebalance_freq)
    /\ SetPortfolio(RotationDay(Portfolio, price_data, rs_data, etf_symbols, Today,
                                rebalance_freq, top_n, threshold_volume))
    /\ di' = di + 1
    /\ UNCHANGED <<outside, pc, args, loaded, vol_locals, result>>

\* Lines 75-91: a rebalance is due but rs_data has no row for the day.
RotUnrankedDay ==
    /\ InLoop
    /\ Tradable(price_data, etf_symbols, Today)
    /\ RebalanceDue(last_rebalance_date, Today, rebalance_freq)
    /\ ~InRsIndex(rs_data, Today)
    /\ SetPortfolio(RotationDay(Portfolio, price_data, rs_data, etf_symbols, Today,
                                rebalance_freq, top_n, threshold_volume))
    /\ di' = di + 1
    /\ UNCHANGED <<outside, pc, args, loaded, vol_locals, result>>

\* Lines 75-149: a processed day with a rebalance.
RotRebalanceDay ==
    /\ InLoop
    /\ Tradable(price_data, etf_symbols, Today)
    /\ RebalanceDue(last_rebalance_date, Today, rebalance_freq)
    /\ InRsIndex(rs_data, Today)
    /\ SetPortfolio(RotationDay(Portfolio, price_data, rs_data, etf_symbols, Today,
                                rebalance_freq, top_n, threshold_volume))
    /\ di' = di + 1
    /\ UNCHANGED <<outside, pc, args, loaded, vol_locals, result>>

\* A faulty analysis: the final value is the cash, as if the positions had
\* been written off.
CashOnlyResult(st, start, end) ==
    LET days == end - start
    IN  IF st.portfolio_value = <<>> THEN [error |-> "KeyError"]
        ELSE IF days = 0 THEN [error |-> "ZeroDivisionError"]
        ELSE [error           |-> "",
              initial_capital |-> R(initial_capital),
              final_value     |-> st.cash,
              total_return    |-> RMul(RDiv(RSub(st.cash, R(initial_capital)),
                                            R(initial_capital)), R(100)),
              annual_return   |-> [base |-> RDiv(st.cash, R(initial_capital)),
                                   days |-> days],
              num_trades      |-> Len(st.trades)]

\* Lines 151-180: the analysis after the loop.  set_index('date') raises
\* KeyError on a frame without rows, and 365 / days raises ZeroDivisionError
\* when end_date = start_date.  annual_return is kept as the base and the day
\* count of (final_value / initial_capital) ** (365 / days) - 1.
RotationResult(st, start, end) ==
    LET final_value == Last(st.portfolio_value).value
        days        == end - start
    IN  IF st.portfolio_value = <<>> THEN [error |-> "KeyError"]
        ELSE IF days = 0 THEN [error |-> "ZeroDivisionError"]
        ELSE [error           |-> "",
              initial_capital |-> R(initial_capital),
              final_value     |-> final_value,
              total_return    |-> RMul(RDiv(RSub(final_value, R(initial_capital)),
                                            R(initial_capital)), R(100)),
              annual_return   |-> [base |-> RDiv(final_value, R(initial_capital)),
                                   days |-> days],
              num_trades      |-> Len(st.trades)]

RotFinish ==
    /\ pc = "loop" /\ di > Len(dates)
    /\ result' = RotationResult(Portfolio, start_date, end_date)
    /\ pc' = IF result'.error = "" THEN "done" ELSE "error"
    /\ UNCHANGED <<outside, args, loaded, di, last_rebalance_date, vol_locals,
                   cash, positions, portfolio_value, trades>>

RotNext ==
    \/ \E start \in StartDates, end \in RotEndDates, freq \in RebalanceFreqs, n \in TopNs :
          RotRunBacktest(start, end, freq, n)
    \/ RotSkipDay
    \/ RotHoldDay
    \/ RotUnrankedDay
    \/ RotRebalanceDay
    \/ RotFinish

RotSpec == RotInit /\ [][RotNext]_vars

(***************************************************************************)
(* Properties of the rotation run.                                         *)
(***************************************************************************)
\* The day the loop visited last was a rebalance.
JustRebalanced == pc = "loop" /\ di > 1 /\ last_rebalance_date = <<dates[di - 1]>>

\* The step of the loop that rebalances on Today.
RebalanceStep == InLoop /\ last_rebalance_date' = <<Today>>

\* The step that leaves the loop for the analysis.
FinishStep == pc = "loop" /\ pc' # "loop"

\* Cash plus shares x adjusted_close(d) over the held symbols.
HeldValue(cash_, positions_, d) ==
    LET value == [i \in DOMAIN positions_ |->
                     RMul(positions_[i].shares, AdjClose(price_data, positions_[i].symbol, d))]
    IN  RAdd(cash_, RSum(value, 1, Len(positions_)))

\* C1: every rebalance conserves value: cash plus the held shares at the
\* day's adjusted closes is the same after the liquidation and the purchases
\* as before them, and it is the value of the sample appended for the day.
RebalanceConservesValue ==
    [][RebalanceStep =>
          /\ HeldValue(cash', positions', Today) = HeldValue(cash, positions, Today)
          /\ portfolio_value' =
                Append(portfolio_value,
                       [date |-> Today, value |-> HeldValue(cash, positions, Today)])]_vars

\* A rebalance that sold a position and bought one.
RebalanceSoldAndBought ==
    /\ JustRebalanced
    /\ \E i, j \in DOMAIN trades :
          /\ trades[i].date = dates[di - 1] /\ trades[i].action = "SELL"
          /\ trades[j].date = dates[di - 1] /\ trades[j].action = "BUY"

\* C2: immediately after a rebalance at most top_n positions are held (at
\* most one with rebalance_freq = 20 and top_n = 1).
AtMostTopNHeld ==
    JustRebalanced =>
        /\ Len(positions) <= top_n
        /\ Cardinality(Range(DictKeys(positions))) = Len(positions)

\* A rebalance with rebalance_freq = 20 and top_n = 1 that holds one position.
RebalancedIntoOne ==
    /\ JustRebalanced
    /\ rebalance_freq = 20 /\ top_n = 1
    /\ Len(positions) = 1

\* The dates an instrument shares with the benchmark, in the range loaded.
SharedDates(s) ==
    {d \in Dates(price_data[s]) : HasDate(price_data[benchmark_symbol], d)}

Earliest(S) == CHOOSE x \in S : \A y \in S : x <= y

Latest(S) == CHOOSE x \in S : \A y \in S : y <= x

\* The value of the table for instrument s on day t: NaN without a row or a column.
RsValue(s, t) ==
    IF s \in Range(rs_data.columns) /\ InRsIndex(rs_data, t)
    THEN RowAt(rs_data.rows, t).rs[IndexOf(rs_data.columns, s)]
    ELSE NaN

\* (inst_t / inst_0) / (bench_t / bench_0)
GrowthRatio(s, t0, t) ==
    RDiv(RDiv(AdjClose(price_data, s, t), AdjClose(price_data, s, t0)),
         RDiv(AdjClose(price_data, benchmark_symbol, t),
              AdjClose(price_data, benchmark_symbol, t0)))

FlatOn(s, S) == \A t \in S : AdjClose(price_data, s, t) = AdjClose(price_data, s, Earliest(S))

\* C5: for an instrument with two or more dates shared with the benchmark the
\* relative strength at a shared date t is (inst_t / inst_0) / (bench_t /
\* bench_0), 0 being the earliest shared date, which has no value of its own;
\* it is 1 throughout when both series are flat, and ends at 2 when the
\* instrument doubles under a flat benchmark.
RelativeStrengthIsGrowthRatio ==
    (pc = "loop" /\ di = 1) =>
        \A k \in DOMAIN etf_symbols :
            LET s      == etf_symbols[k]
                shared == SharedDates(s)
                t0     == Earliest(shared)
                tn     == Latest(shared)
            IN  Cardinality(shared) >= 2 =>
                    /\ IsNaN(RsValue(s, t0))
                    /\ \A t \in shared \ {t0} : RsValue(s, t) = GrowthRatio(s, t0, t)
                    /\ FlatOn(s, shared) /\ FlatOn(benchmark_symbol, shared) =>
                          \A t \in shared \ {t0} : RsValue(s, t) = R(1)
                    /\ /\ FlatOn(benchmark_symbol, shared)
                       /\ AdjClose(price_data, s, tn) = RMul(R(2), AdjClose(price_data, s, t0))
                       => RsValue(s, tn) = R(2)

\* A table in which the first instrument has doubled and the third is flat.
DoubledAndFlat ==
    /\ pc = "loop" /\ di = 1
    /\ Cardinality(SharedDates(etf_symbols[1])) >= 2
    /\ RsValue(etf_symbols[1], Latest(SharedDates(etf_symbols[1]))) = R(2)
    /\ FlatOn(etf_symbols[3], SharedDates(etf_symbols[3]))
    /\ RsValue(etf_symbols[3], Latest(SharedDates(etf_symbols[3]))) = R(1)

\* The history cut after day d, what the run loads from it, and the step the
\* loop takes on Today with it.
TruncatedDb(d) == [s \in DOMAIN db |-> UpTo(db[s], d)]

TruncatedPrices(d) ==
    [s \in DOMAIN db |-> get_price_volume_data(TruncatedDb(d), s, start_date, end_date)]

TruncatedRs(d) ==
    calculate_relative_strength(TruncatedDb(d), etf_symbols, benchmark_symbol,
                                start_date, end_date)

\* The run on the history cut after Today takes the step the run takes: the
\* same day processed or skipped, the same rebalance, candidates, cash,
\* positions, ledger and value series.
AgreesWithTruncated ==
    LET prices == TruncatedPrices(Today)
        rs     == TruncatedRs(Today)
        day    == RotationDay(Portfolio, prices, rs, etf_symbols, Today,
                              rebalance_freq, top_n, threshold_volume)
    IN  /\ Tradable(prices, etf_symbols, Today) = Tradable(price_data, etf_symbols, Today)
        /\ cash' = day.cash
        /\ positions' = day.positions
        /\ portfolio_value' = day.portfolio_value
        /\ trades' = day.trades
        /\ last_rebalance_date' = day.last_rebalance_date
        /\ last_rebalance_date' = <<Today>> =>
              BuyCandidates(prices, rs, Today, top_n, threshold_volume)
                  = BuyCandidates(price_data, rs_data, Today, top_n, threshold_volume)

\* The benchmark has a bar in the range on or before day d.
BenchmarkSeenBy(d) == get_price_volume_data(db, benchmark_symbol, start_date, d) # <<>>

NoLiquidationAtEnd ==
    [][FinishStep =>
          /\ trades' = trades
          /\ positions' = positions
          /\ cash' = cash
          /\ result'.error = "" =>
                result'.final_value =
                    HeldValue(cash, positions, Last(portfolio_value).date)]_vars

\* A finished run that rebalanced on its last day and still holds positions.
FinishedHoldingAfterLastDayRebalance ==
    /\ pc = "done"
    /\ positions # <<>>
    /\ last_rebalance_date = <<Last(portfolio_value).date>>
    /\ Last(portfolio_value).date = end_date
    /\ Last(trades).date = end_date

\* C10: a run called with end_date <= start_date processes no trading day,
\* produces no value sample and no trade record, and does not reach the
\* annualisation with elapsed days <= 0.
NoSimulationOnInvalidRange ==
    (pc # "idle" /\ end_date <= start_date) =>
        /\ di = 1 /\ ri = 1
        /\ portfolio_value = <<>>
        /\ trades = <<>>
        /\ result.error # "ZeroDivisionError"

(***************************************************************************)
(* A rebalance that fails.  Lines 111-149 run inside no try block and keep *)
(* no copy of the fields: an exception raised among the purchases (an      *)
(* interrupt, a failing frame access) leaves run_backtest at once, with    *)
(* cash, positions and trades as the statements before it left them.       *)
(***************************************************************************)
\* The databases of the family with a flat, complete benchmark and a first
\* instrument that rises with both spikes.
SmallDatabases ==
    {[s \in Range(etf_symbols) \cup {benchmark_symbol} |->
         Bars(IF s = etf_symbols[1] THEN Profile(BasePrice, <<TopPrice, TopPrice + up>>, BothSpikes, {})
              ELSE IF s = etf_symbols[2] THEN p2
              ELSE IF s = etf_symbols[3] THEN p3
              ELSE Profile(BasePrice, <<>>, {}, {}))] :
        up \in {0, 1}, p2 \in RiserProfiles, p3 \in QuietProfiles}

\* Lines 112-147 up to an exception in the purchase after the k-th.
InterruptedRebalance(st, prices, rs, d, n, threshold, k) ==
    LET buy_candidates == BuyCandidates(prices, rs, d, n, threshold)
        sold           == Liquidate(st, st.positions, 1, prices, d)
    IN  Invest(sold, SubSeq(buy_candidates, 1, k), 1,
               RDiv(sold.cash, R(Len(buy_candidates))), prices, d)

\* The rebalance of Today liquidates the holdings and raises before the last
\* of its purchases.
RotRebalanceFault ==
    /\ InLoop
    /\ Tradable(price_data, etf_symbols, Today)
    /\ RebalanceDue(last_rebalance_date, Today, rebalance_freq)
    /\ InRsIndex(rs_data, Today)
    /\ positions # <<>>
    /\ LET buy_candidates ==
               BuyCandidates(price_data, rs_data, Today, top_n, threshold_volume)
       IN  /\ buy_candidates # <<>>
           /\ \E k \in 0..(Len(buy_candidates) - 1) :
                 SetPortfolio(InterruptedRebalance(Sample(Portfolio, price_data, Today),
                                                   price_data, rs_data, Today, top_n,
                                                   threshold_volume, k))
    /\ pc' = "error"
    /\ result' = [error |-> "Exception"]
    /\ UNCHANGED <<outside, args, loaded, di, vol_locals>>

RotFaultInit ==
    /\ RotInit
    /\ db \in SmallDatabases

RotFaultNext == RotNext \/ RotRebalanceFault

RotFaultSpec == RotFaultInit /\ [][RotFaultNext]_vars

\* C11: a rebalance that fails after the liquidation and before the last
\* purchase leaves the portfolio and the ledger either as they were before the
\* rebalance or as the completed rebalance leaves them.
RebalanceIsAtomic ==
    [][(InLoop /\ pc' = "error") =>
          \/ SetPortfolio(Portfolio)
          \/ SetPortfolio(Sample(Portfolio, price_data, Today))
          \/ SetPortfolio(RotationDay(Portfolio, price_data, rs_data, etf_symbols, Today,
                                      rebalance_freq, top_n, threshold_volume))]_vars

(***************************************************************************)
(* The analyzer on its own: calculate_relative_strength, then              *)
(* normalize_relative_strength on the table returned, then                 *)
(* get_sector_rotation on the normalised table.  pc is "returned" after    *)
(* the first, "normalized" after the second and "ranked" after the third.  *)
(* The second instrument may have no bar at all, or a bar on day 0 alone,  *)
(* which the late benchmark lacks; the third may move like the first.      *)
(***************************************************************************)
NoBars == Profile(BasePrice, <<>>, {}, 0..MaxDay)

OnlyFirstBar == Profile(BasePrice, <<>>, {}, 1..MaxDay)

Rising == Profile(BasePrice, <<TopPrice, TopPrice + 1>>, {}, {})

Flat == Profile(BasePrice, <<>>, {}, {})

RsDatabases ==
    {[s \in Range(etf_symbols) \cup {benchmark_symbol} |->
         Bars(IF s = etf_symbols[1] THEN p1
              ELSE IF s = etf_symbols[2] THEN p2
              ELSE IF s = etf_symbols[3] THEN p3
              ELSE pb)] :
        p1 \in {Rising, Profile(BasePrice, <<TopPrice, TopPrice>>, {}, {})},
        p2 \in {Profile(BasePrice, <<TopPrice + 1, TopPrice>>, {}, {}), NoBars, OnlyFirstBar},
        p3 \in {Flat, Rising},
        pb \in {Flat, Profile(BasePrice, <<>>, {}, {0})}}

\* window: None (0 here; `if window:` is false for both) or a number of days.
Windows == {0, 3}

\* method: the three the code knows and one it does not.
Methods == {"z_score", "min_max", "percent_rank", "robust"}

RankNs == {1, 2, 3}

RsInit ==
    /\ db \in RsDatabases
    /\ backtester = "none"
    /\ NothingRun
    /\ pc = "idle"
    /\ start_date = 0 /\ end_date = 0 /\ rebalance_freq = 0 /\ top_n = 0
    /\ price_data = <<>> /\ rs_data = NoTable /\ dates = <<>> /\ di = 1
    /\ last_rebalance_date = <<>>
    /\ data = <<>> /\ ri = 1 /\ holding = FALSE /\ entry_price = R(0)
    /\ cash = R(initial_capital)
    /\ positions = <<>>
    /\ portfolio_value = <<>>
    /\ trades = <<>>
    /\ result = NoResult

\* What the analyzer's steps leave alone.
backtests == <<db, backtester, previous, rebalance_freq, price_data, dates, di,
               last_rebalance_date, vol_locals, cash, positions, portfolio_value, trades>>

\* calculate_relative_strength(etf_symbols, benchmark_symbol, start, end, w)
\* with every commit succeeding.
RsCalculate(start, end, w) ==
    /\ pc = "idle"
    /\ start_date' = start /\ end_date' = end /\ window' = w
    /\ LET table == calculate_relative_strength(db, etf_symbols, benchmark_symbol, start, end)
       IN  IF table.error # ""
           THEN /\ pc' = "error"
                /\ result' = [error |-> table.error]
                /\ UNCHANGED <<rs_data, sink>>
           ELSE /\ pc' = "returned"
                /\ rs_data' = table
                /\ sink' = Persisted(sink, db, etf_symbols, benchmark_symbol, start, end,
                                     Len(table.columns))
                /\ UNCHANGED result
    /\ UNCHANGED <<backtests, top_n, method, normalized_rs, top_sectors>>

\* The same call when session.merge or session.commit raises for the k-th
\* instrument computed (lines 88-97 run inside no try block): the commits of
\* the instruments before it stand, and the exception leaves the call.
RsCalculateSinkFails(start, end, w, k) ==
    /\ pc = "idle"
    /\ start_date' = start /\ end_date' = end /\ window' = w
    /\ LET table == calculate_relative_strength(db, etf_symbols, benchmark_symbol, start, end)
       IN  /\ table.error = ""
           /\ k \in DOMAIN table.columns
           /\ ColumnValues(table.rows, k) # <<>>
    /\ sink' = Persisted(sink, db, etf_symbols, benchmark_symbol, start, end, k - 1)
    /\ pc' = "error"
    /\ result' = [error |-> "SQLAlchemyError"]
    /\ UNCHANGED <<backtests, rs_data, top_n, method, normalized_rs, top_sectors>>

\* normalize_relative_strength(rs_df, method) on the table returned.
RsNormalize(m) ==
    /\ pc = "returned"
    /\ method' = m
    /\ LET table == normalize_by_method(rs_data, m)
       IN  IF table.error # ""
           THEN /\ pc' = "error"
                /\ result' = [error |-> table.error]
                /\ UNCHANGED normalized_rs
           ELSE /\ pc' = "normalized"
                /\ normalized_rs' = table
                /\ UNCHANGED result
    /\ UNCHANGED <<backtests, start_date, end_date, window, rs_data, sink, top_n, top_sectors>>

\* get_sector_rotation(normalized_rs, n) on the normalised table.
RsRank(n) ==
    /\ pc = "normalized"
    /\ top_n' = n
    /\ top_sectors' = get_sector_rotation(normalized_rs, n, lookback_period)
    /\ pc' = "ranked"
    /\ UNCHANGED <<backtests, start_date, end_date, window, rs_data, sink, method,
                   normalized_rs, result>>

RsNext ==
    \/ \E start \in StartDates, end \in RotEndDates, w \in Windows : RsCalculate(start, end, w)
    \/ \E start \in StartDates, end \in RotEndDates, w \in Windows, k \in DOMAIN etf_symbols :
          RsCalculateSinkFails(start, end, w, k)
    \/ \E m \in Methods : RsNormalize(m)
    \/ \E n \in RankNs : RsRank(n)

RsSpec == RsInit /\ [][RsNext]_vars

(***************************************************************************)
(* Properties of the analyzer.                                             *)
(***************************************************************************)
\* The rows of a symbol in the range of the call.
InRange(s) == get_price_volume_data(db, s, start_date, end_date)

\* The symbol has a date in common with the benchmark in the range.
SharesADate(s) == \E i \in DOMAIN InRange(s) : HasDate(InRange(benchmark_symbol), InRange(s)[i].date)

\* The value of the table returned for symbol s on day t.
Returned(s, t) == RowAt(rs_data.rows, t).rs[IndexOf(rs_data.columns, s)]

\* The step that leaves calculate_relative_strength.
CalculateStep == backtester = "none" /\ pc = "idle" /\ pc' # "idle"

\* C12: with no benchmark row in the range calculate_relative_strength fails
\* (ValueError), before any instrument: nothing is written to the
\* RelativeStrength table and no table is returned.
NoBenchmarkIsFatal ==
    [][(CalculateStep /\ get_price_volume_data(db, benchmark_symbol, start_date', end_date') = <<>>) =>
          /\ pc' = "error"
          /\ result'.error = "ValueError"
          /\ sink' = sink
          /\ rs_data' = NoTable]_vars

\* A call that failed for want of benchmark rows while an instrument had rows.
FailedWithoutBenchmark ==
    /\ backtester = "none"
    /\ pc = "error" /\ result.error = "ValueError"
    /\ InRange(benchmark_symbol) = <<>>
    /\ InRange(etf_symbols[1]) # <<>>
    /\ sink = {}

\* C13: an instrument without rows, or without a date in common with the
\* benchmark, is skipped and the call returns: the instrument is no column of
\* the table and has no record written, and every other instrument, before
\* and after it in the list, has its column and its records.
SkippedInstrumentIsLeftOut ==
    (backtester = "none" /\ pc = "returned") =>
        \A i \in DOMAIN etf_symbols :
            LET s      == etf_symbols[i]
                series == RelativeStrengthSeries(InRange(benchmark_symbol), InRange(s))
            IN  IF ~SharesADate(s)
                THEN /\ s \notin Range(rs_data.columns)
                     /\ \A r \in sink : r.etf_symbol # s
                ELSE /\ s \in Range(rs_data.columns)
                     /\ \A j \in DOMAIN series :
                           /\ Returned(s, series[j].date) = series[j].value
                           /\ [date              |-> series[j].date,
                               etf_symbol        |-> s,
                               benchmark_symbol  |-> benchmark_symbol,
                               relative_strength |-> series[j].value] \in sink

\* A table returned without the second instrument, which has a row but no
\* date in common with the benchmark, and with the first and the third.
ReturnedWithoutSecond ==
    /\ backtester = "none" /\ pc = "returned"
    /\ InRange(etf_symbols[2]) # <<>>
    /\ rs_data.columns = <<etf_symbols[1], etf_symbols[3]>>
    /\ rs_data.rows # <<>>
    /\ \E r \in sink : r.etf_symbol = etf_symbols[3]

\* C14: a merge or commit that fails is caught, and the call still returns the
\* table of every instrument computed.
SinkFailureIsCaught ==
    [][(CalculateStep /\ get_price_volume_data(db, benchmark_symbol, start_date', end_date') # <<>>) =>
          /\ pc' = "returned"
          /\ rs_data' = calculate_relative_strength(db, etf_symbols, benchmark_symbol,
                                                    start_date', end_date')]_vars

\* The step that leaves normalize_relative_strength.
NormalizeStep == pc = "returned" /\ pc' # "returned"

\* C15: normalize_relative_strength raises for a method that is none of
\* z_score, min_max and percent_rank and returns no table; for each of the
\* three it returns a table with the dates and the columns of its input.
NormalizeKeepsShapeOrFails ==
    [][NormalizeStep =>
          IF method' \in {"z_score", "min_max", "percent_rank"}
          THEN /\ pc' = "normalized"
               /\ normalized_rs'.columns = rs_data.columns
               /\ Len(normalized_rs'.rows) = Len(rs_data.rows)
               /\ \A i \in DOMAIN rs_data.rows :
                     /\ normalized_rs'.rows[i].date = rs_data.rows[i].date
                     /\ Len(normalized_rs'.rows[i].z) = Len(rs_data.columns)
          ELSE /\ pc' = "error"
               /\ result'.error = "ValueError"
               /\ normalized_rs' = normalized_rs]_vars

\* A call with an unknown method on a table with rows.
UnknownMethodRaised ==
    /\ pc = "error"
    /\ method = "robust"
    /\ rs_data.rows # <<>>
    /\ normalized_rs.rows = <<>>

\* The mean of column k of the normalised table over its last lookback_period
\* rows, NaN skipped.
TrailingMean(k) ==
    LET rows  == normalized_rs.rows
        n     == Len(rows)
        first == Max2(1, n - lookback_period + 1)
        kept  == {i \in first..n : ~SurdIsNaN(rows[i].z[k])}
        nums  == [i \in 1..n |-> IF i \in kept THEN rows[i].z[k].num ELSE R(0)]
    IN  IF kept = {} THEN Surd(NaN, NaN)
        ELSE Surd(RDiv(RSum(nums, first, n), R(Cardinality(kept))),
                  rows[CHOOSE i \in kept : TRUE].z[k].var)

Column(s) == IndexOf(normalized_rs.columns, s)

MeanOf(s) == TrailingMean(Column(s))

Ranked == {s \in Range(normalized_rs.columns) : ~SurdIsNaN(MeanOf(s))}

ReturnsSmoothedValues ==
    (backtester = "none" /\ pc = "returned" /\ window > 0) =>
        \A k \in DOMAIN rs_data.columns :
            LET s      == rs_data.columns[k]
                series == RelativeStrengthSeries(InRange(benchmark_symbol), InRange(s))
            IN  \A j \in DOMAIN series :
                    Returned(s, series[j].date) = RsMa(series, j, window)

(***************************************************************************)
(* SectorVolumeBacktester.run_backtest on one instrument.  The portfolio   *)
(* is st = [cash, positions, portfolio_value, trades, holding,             *)
(* entry_price].                                                           *)
(***************************************************************************)
VolBasePrice == 90

VolLevels == {VolBasePrice, 100, 120}

VolProfiles ==
    {Profile(VolBasePrice, <<l1, l2, l3>>, spikes, {}) :
        l1 \in VolLevels, l2 \in VolLevels, l3 \in VolLevels,
        spikes \in SUBSET Range(SpikeDays)}

symbol == etf_symbols[1]

VolDatabases ==
    {[s \in {symbol, benchmark_symbol} |->
         Bars(IF s = symbol THEN p ELSE Profile(BasePrice, <<>>, {}, {}))] :
        p \in VolProfiles}

\* Lines 208-213: the instrument's rows with the columns the loop reads.
SignalFrame(rows) ==
    LET indicators  == calculate_volume_indicators(rows)
        buy_signal  == generate_buy_signals(indicators, threshold_volume)
        sell_signal == generate_sell_signals(indicators, threshold_volume)
    IN  Eager([i \in DOMAIN rows |->
            [date           |-> rows[i].date,
             adjusted_close |-> rows[i].adjusted_close,
             volume         |-> rows[i].volume,
             buy_signal     |-> buy_signal[i],
             sell_signal    |-> sell_signal[i]]])

\* Line 232: the row opens a position.
BuysOn(st, row) == row.buy_signal /\ ~st.holding /\ RGt(st.cash, R(0))

\* Line 250: the row closes the position.
SellsOn(st, row) == ~BuysOn(st, row) /\ row.sell_signal /\ st.holding

\* A faulty purchase: half of the cash is spent and the run stays FLAT.
VolumeBuyHalf(st, sym, row) ==
    LET price  == R(row.adjusted_close)
        shares == RDiv(RDiv(st.cash, R(2)), price)
    IN  [st EXCEPT
            !.positions = DictSet(@, sym, shares),
            !.entry_price = price,
            !.cash = RDiv(@, R(2)),
            !.trades = Append(@, [date |-> row.date, symbol |-> sym, action |-> "BUY",
                                  shares |-> shares, price |-> price,
                                  value |-> RMul(shares, price)])]

\* A faulty purchase: a share costs one more than its close.
VolumeBuyWithFee(st, sym, row) ==
    LET price  == R(row.adjusted_close)
        shares == RDiv(st.cash, RAdd(price, R(1)))
    IN  [st EXCEPT
            !.positions = DictSet(@, sym, shares),
            !.entry_price = price,
            !.cash = R(0),
            !.holding = TRUE,
            !.trades = Append(@, [date |-> row.date, symbol |-> sym, action |-> "BUY",
                                  shares |-> shares, price |-> price,
                                  value |-> RMul(shares, price)])]

\* Lines 233-247.
VolumeBuy(st, sym, row) ==
    LET price  == R(row.adjusted_close)
        shares == RDiv(st.cash, price)
    IN  [st EXCEPT
            !.positions = DictSet(@, sym, shares),
            !.entry_price = price,
            !.cash = R(0),
            !.holding = TRUE,
            !.trades = Append(@, [date |-> row.date, symbol |-> sym, action |-> "BUY",
                                  shares |-> shares, price |-> price,
                                  value |-> RMul(shares, price)])]

\* A faulty sale: the proceeds are booked and the position is kept.
VolumeSellKeeping(st, sym, row) ==
    LET price  == R(row.adjusted_close)
        shares == DictGet(st.positions, sym)
    IN  [st EXCEPT
            !.cash = RAdd(@, RMul(shares, price)),
            !.holding = FALSE,
            !.trades = Append(@, SellRecord(row.date, sym, shares, price))]

\* Lines 251-265.
VolumeSell(st, sym, row) ==
    LET price  == R(row.adjusted_close)
        shares == DictGet(st.positions, sym)
    IN  [st EXCEPT
            !.cash = RAdd(@, RMul(shares, price)),
            !.positions = DictDel(@, sym),
            !.holding = FALSE,
            !.trades = Append(@, SellRecord(row.date, sym, shares, price))]

\* A faulty sample: the cash alone.
VolumeSampleOfCash(st, row) ==
    [st EXCEPT !.portfolio_value = Append(@, [date |-> row.date, value |-> st.cash])]

\* Lines 268-275: cash plus every position at the row's close.
VolumeSample(st, row) ==
    LET value == [i \in DOMAIN st.positions |->
                     RMul(st.positions[i].shares, R(row.adjusted_close))]
    IN  [st EXCEPT !.portfolio_value =
            Append(@, [date  |-> row.date,
                       value |-> RAdd(st.cash, RSum(value, 1, Len(st.positions)))])]

\* Lines 230-275: one iteration of the loop over rows.
VolumeRow(st, sym, row) ==
    VolumeSample(IF BuysOn(st, row) THEN VolumeBuy(st, sym, row)
                 ELSE IF SellsOn(st, row) THEN VolumeSell(st, sym, row)
                 ELSE st,
                 row)

\* A faulty end of period: the position is sold at its entry price.
EndLiquidationAtEntry(st, sym, frame) ==
    IF ~st.holding THEN st
    ELSE LET shares == DictGet(st.positions, sym)
         IN  [st EXCEPT
                 !.cash = RAdd(@, RMul(shares, st.entry_price)),
                 !.positions = <<>>,
                 !.trades = Append(@,
                     [date |-> Last(frame).date, symbol |-> sym, action |-> "SELL (End)",
                      shares |-> shares, price |-> st.entry_price,
                      value |-> RMul(shares, st.entry_price)])]

\* Lines 278-292: the position left after the last row is sold at its close.
EndLiquidation(st, sym, frame) ==
    IF ~st.holding THEN st
    ELSE LET last_price == R(Last(frame).adjusted_close)
             shares     == DictGet(st.positions, sym)
         IN  [st EXCEPT
                 !.cash = RAdd(@, RMul(shares, last_price)),
                 !.positions = <<>>,
                 !.trades = Append(@,
                     [date |-> Last(frame).date, symbol |-> sym, action |-> "SELL (End)",
                      shares |-> shares, price |-> last_price,
                      value |-> RMul(shares, last_price)])]

\* portfolio_df['value'].cummax(): acc holds the maxima of the rows so far.
RECURSIVE CumMax(_, _)
CumMax(values, acc) ==
    LET i == Len(acc) + 1
    IN  IF i > Len(values) THEN acc
        ELSE CumMax(values, Append(acc,
                 IF acc # <<>> /\ RGt(Last(acc), values[i]) THEN Last(acc) ELSE values[i]))

\* Series.min()
RECURSIVE SeriesMin(_, _)
SeriesMin(values, n) ==
    IF n = 1 THEN values[1]
    ELSE LET m == SeriesMin(values, n - 1)
         IN  IF RLt(values[n], m) THEN values[n] ELSE m

\* A faulty drawdown: measured from the first value, not from the running maximum.
DrawdownFromStart(samples) ==
    LET values   == Eager([i \in DOMAIN samples |-> samples[i].value])
        drawdown == Eager([i \in DOMAIN values |->
                        RMul(RDiv(RSub(values[i], values[1]), values[1]), R(100))])
    IN  SeriesMin(drawdown, Len(drawdown))

\* Lines 316-318.
MaxDrawdown(samples) ==
    LET values      == Eager([i \in DOMAIN samples |-> samples[i].value])
        rolling_max == CumMax(values, <<>>)
        drawdown    == Eager([i \in DOMAIN values |->
                           RMul(RDiv(RSub(values[i], rolling_max[i]), rolling_max[i]),
                                R(100))])
    IN  SeriesMin(drawdown, Len(drawdown))

\* Lines 295-334: the analysis.  set_index('date') raises KeyError on a frame
\* without rows, iloc[0] raises IndexError on a benchmark without rows and
\* 365 / days raises ZeroDivisionError when end_date = start_date.
VolumeResult(st, benchmark_data, start, end) ==
    LET final_value == Last(st.portfolio_value).value
        days        == end - start
    IN  IF st.portfolio_value = <<>> THEN [error |-> "KeyError"]
        ELSE IF benchmark_data = <<>> THEN [error |-> "IndexError"]
        ELSE IF days = 0 THEN [error |-> "ZeroDivisionError"]
        ELSE [error           |-> "",
              initial_capital |-> R(initial_capital),
              final_value     |-> final_value,
              total_return    |-> RMul(RDiv(RSub(final_value, R(initial_capital)),
                                            R(initial_capital)), R(100)),
              annual_return   |-> [base |-> RDiv(final_value, R(initial_capital)),
                                   days |-> days],
              max_drawdown    |-> MaxDrawdown(st.portfolio_value),
              num_trades      |-> Len(st.trades)]

VolPortfolio ==
    [cash |-> cash, positions |-> positions, portfolio_value |-> portfolio_value,
     trades |-> trades, holding |-> holding, entry_price |-> entry_price]

SetVolPortfolio(st) ==
    /\ cash' = st.cash
    /\ positions' = st.positions
    /\ portfolio_value' = st.portfolio_value
    /\ trades' = st.trades
    /\ holding' = st.holding
    /\ entry_price' = st.entry_price

\* SectorVolumeBacktester.__init__ on a database of the family.
VolInit ==
    /\ db \in VolDatabases
    /\ backtester = "SectorVolumeBacktester"
    /\ NothingRun
    /\ pc = "idle"
    /\ start_date = 0 /\ end_date = 0 /\ rebalance_freq = 0 /\ top_n = 0
    /\ price_data = <<>> /\ rs_data = NoTable /\ dates = <<>> /\ di = 1
    /\ last_rebalance_date = <<>>
    /\ data = <<>> /\ ri = 1 /\ holding = FALSE /\ entry_price = R(0)
    /\ cash = R(initial_capital)
    /\ positions = <<>>
    /\ portfolio_value = <<>>
    /\ trades = <<>>
    /\ result = NoResult

\* Lines 207-228: the call, up to the loop.
VolCall(start, end) ==
    /\ start_date' = start /\ end_date' = end
    /\ data' = SignalFrame(get_price_volume_data(db, symbol, start, end))
    /\ positions' = <<>>
    /\ cash' = R(initial_capital)
    /\ portfolio_value' = <<>>
    /\ trades' = <<>>
    /\ holding' = FALSE
    /\ entry_price' = R(0)
    /\ ri' = 1
    /\ pc' = "loop"
    /\ result' = NoResult
    /\ UNCHANGED <<db, sink, backtester, rs_locals, rot_locals>>

\* The first call on the instance.
VolRunBacktest(start, end) ==
    /\ pc = "idle"
    /\ VolCall(start, end)
    /\ UNCHANGED previous

InRows == pc = "loop" /\ ri <= Len(data)

\* Lines 232-247 and 267-275: a row that opens a position.
VolBuyRow ==
    /\ InRows
    /\ BuysOn(VolPortfolio, data[ri])
    /\ SetVolPortfolio(VolumeRow(VolPortfolio, symbol, data[ri]))
    /\ ri' = ri + 1
    /\ UNCHANGED <<outside, pc, start_date, end_date, rot_locals, data, result>>

\* Lines 250-265 and 267-275: a row that closes the position.
VolSellRow ==
    /\ InRows
    /\ SellsOn(VolPortfolio, data[ri])
    /\ SetVolPortfolio(VolumeRow(VolPortfolio, symbol, data[ri]))
    /\ ri' = ri + 1
    /\ UNCHANGED <<outside, pc, start_date, end_date, rot_locals, data, result>>

\* Lines 267-275: a row without a trade.
VolQuietRow ==
    /\ InRows
    /\ ~BuysOn(VolPortfolio, data[ri])
    /\ ~SellsOn(VolPortfolio, data[ri])
    /\ SetVolPortfolio(VolumeRow(VolPortfolio, symbol, data[ri]))
    /\ ri' = ri + 1
    /\ UNCHANGED <<outside, pc, start_date, end_date, rot_locals, data, result>>

\* Lines 277-334: the end-of-period sale and the analysis.
VolFinish ==
    /\ pc = "loop" /\ ri > Len(data)
    /\ SetVolPortfolio(EndLiquidation(VolPortfolio, symbol, data))
    /\ result' = VolumeResult(EndLiquidation(VolPortfolio, symbol, data),
                              get_price_volume_data(db, benchmark_symbol, start_date, end_date),
                              start_date, end_date)
    /\ pc' = IF result'.error = "" THEN "done" ELSE "error"
    /\ UNCHANGED <<outside, start_date, end_date, rot_locals, data, ri>>

VolNext ==
    \/ \E start \in StartDates, end \in EndDates : VolRunBacktest(start, end)
    \/ VolBuyRow
    \/ VolSellRow
    \/ VolQuietRow
    \/ VolFinish

VolSpec == VolInit /\ [][VolNext]_vars

(***************************************************************************)
(* Properties of the single-instrument run.                                *)
(***************************************************************************)
SellActions == {"SELL", "SELL (End)"}

\* C3: a run whose ledger is one BUY at p1 and then one SELL at p2, by a
\* signal or at the end of the period, reports final_value = K * p2 / p1,
\* total_return = (p2 / p1 - 1) * 100 and two trades; with K = 10000, p1 = 100
\* and p2 = 120 that is 100 shares, 20 percent and two trades.
OneRoundTripReturn ==
    (/\ pc = "done"
     /\ Len(trades) = 2
     /\ trades[1].action = "BUY"
     /\ trades[2].action \in SellActions) =>
        LET K  == R(initial_capital)
            p1 == trades[1].price
            p2 == trades[2].price
        IN  /\ result.final_value = RDiv(RMul(K, p2), p1)
            /\ result.total_return = RMul(RSub(RDiv(p2, p1), R(1)), R(100))
            /\ result.num_trades = 2
            /\ (p1 = R(100) /\ p2 = R(120)) =>
                  /\ trades[1].shares = R(100)
                  /\ result.total_return = R(20)

\* A finished run that bought at 100 and sold at 120.
BoughtAt100SoldAt120 ==
    /\ pc = "done"
    /\ Len(trades) = 2
    /\ trades[1].action = "BUY" /\ trades[1].price = R(100)
    /\ trades[2].action \in SellActions /\ trades[2].price = R(120)
    /\ result.total_return = R(20)

\* The value series of the run.
Values == [i \in DOMAIN portfolio_value |-> portfolio_value[i].value]

\* The largest of the first t values.
RunningMax(t) ==
    CHOOSE m \in {Values[j] : j \in 1..t} : \A j \in 1..t : RLe(Values[j], m)

\* (value_t - running_max_t) / running_max_t * 100
DrawdownAt(t) == RMul(RDiv(RSub(Values[t], RunningMax(t)), RunningMax(t)), R(100))

NonDecreasing == \A t \in 2..Len(Values) : RLe(Values[t - 1], Values[t])

\* C4: max_drawdown is the minimum over the value series of (value_t -
\* running_max_t) / running_max_t * 100; it is never above 0, and it is 0
\* when the series never decreases.
MaxDrawdownIsLeastDrawdown ==
    pc = "done" =>
        /\ \E t \in DOMAIN Values : result.max_drawdown = DrawdownAt(t)
        /\ \A t \in DOMAIN Values : RLe(result.max_drawdown, DrawdownAt(t))
        /\ RLe(result.max_drawdown, R(0))
        /\ NonDecreasing => result.max_drawdown = R(0)

\* A finished run whose value fell below an earlier maximum above the capital.
DrawdownAfterGain ==
    /\ pc = "done"
    /\ RLt(result.max_drawdown, R(0))
    /\ \E t \in DOMAIN Values : RGt(Values[t], R(initial_capital))

\* The ledger alternates BUY, SELL, BUY, ... from a BUY.
Alternates(ledger) ==
    \A i \in DOMAIN ledger :
        IF i % 2 = 1 THEN ledger[i].action = "BUY" ELSE ledger[i].action \in SellActions

\* C7: a BUY is recorded only on a row where the run is FLAT, buy_signal is
\* true and cash > 0, and a signal-driven SELL only on a row where it is LONG
\* and sell_signal is true; the ledger alternates BUY, SELL, BUY, ... from a
\* BUY, and no two consecutive records have the same action.
FlatLongAlternation ==
    [][(pc = "loop" /\ trades' # trades) =>
          /\ trades' = Append(trades, Last(trades'))
          /\ Last(trades').action = "BUY" =>
                /\ InRows /\ ~holding /\ data[ri].buy_signal /\ RGt(cash, R(0))
                /\ holding'
          /\ Last(trades').action = "SELL" =>
                /\ InRows /\ holding /\ data[ri].sell_signal
                /\ ~holding'
          /\ Alternates(trades')
          /\ \A i \in 2..Len(trades') : trades'[i].action # trades'[i - 1].action]_vars

\* A run that bought, sold on a signal and bought again.
BoughtSoldBought ==
    /\ pc = "loop"
    /\ Len(trades) >= 3
    /\ trades[1].action = "BUY" /\ trades[2].action = "SELL" /\ trades[3].action = "BUY"

\* C8: at the end of the run one more record is appended exactly when the run
\* is LONG after the last row: action 'SELL (End)', all the shares held, the
\* last row's adjusted close.  Afterwards no position is held, cash is the
\* reported final_value, and no signal-driven record carries that action.
EndOfPeriodSale ==
    [][(pc = "loop" /\ pc' # "loop") =>
          /\ holding =>
                trades' = Append(trades,
                    [date   |-> Last(data).date,
                     symbol |-> symbol,
                     action |-> "SELL (End)",
                     shares |-> DictGet(positions, symbol),
                     price  |-> R(Last(data).adjusted_close),
                     value  |-> RMul(DictGet(positions, symbol),
                                     R(Last(data).adjusted_close))])
          /\ ~holding => trades' = trades
          /\ positions' = <<>>
          /\ result'.error = "" => cash' = result'.final_value
          /\ \A i \in DOMAIN trades : trades[i].action # "SELL (End)"]_vars

\* A finished run that was LONG after its last row, with a gain.
FinishedLong ==
    /\ pc = "done"
    /\ holding
    /\ Last(trades).action = "SELL (End)"
    /\ Last(trades).price # entry_price
    /\ cash = result.final_value


\* The frames of signals of every instrument and range of the inputs.
SignalFrames ==
    {SignalFrame(get_price_volume_data(d, symbol, start, end)) :
        d \in VolDatabases, start \in StartDates, end \in EndDates}

\* C18 (as stated): some series has a row on which generate_buy_signals and
\* generate_sell_signals, with the default threshold and trend_days, both
\* set their signal.
SomeRowSignalsBoth ==
    \E frame \in SignalFrames : \E i \in DOMAIN frame :
        frame[i].buy_signal /\ frame[i].sell_signal

\* C18: the buy and the sell rule are mutually exclusive: no row of a frame
\* has buy_signal and sell_signal both true.
SignalsAreExclusive ==
    \A i \in DOMAIN data : ~(data[i].buy_signal /\ data[i].sell_signal)

\* A frame with a buy signal on one row and a sell signal on another.
FrameWithBuyAndSell ==
    /\ \E i \in DOMAIN data : data[i].buy_signal
    /\ \E i \in DOMAIN data : data[i].sell_signal

(***************************************************************************)
(* Two runs on one instance.  `previous` records what the first run was    *)
(* called with and what it left and returned.                              *)
(***************************************************************************)
RerunVolDatabases ==
    {[s \in {symbol, benchmark_symbol} |->
         Bars(IF s = symbol
              THEN Profile(VolBasePrice, <<l1, l2, l3>>, Range(SpikeDays), {})
              ELSE Profile(BasePrice, <<>>, {}, {}))] :
        l1 \in {100, 120}, l2 \in {VolBasePrice, 120}, l3 \in {VolBasePrice, 120}}

RerunInit ==
    \/ RotInit /\ db \in SmallDatabases
    \/ VolInit /\ db \in RerunVolDatabases

Finished == pc \in {"done", "error"}

LeftByRun ==
    [error |-> "", args |-> args, result |-> result, cash |-> cash,
     positions |-> positions, portfolio_value |-> portfolio_value, trades |-> trades]

\* run_backtest called again on the instance of a finished rotation run.
RotRunAgain(start, end, freq, n) ==
    /\ backtester = "SectorRotationBacktester"
    /\ Finished
    /\ previous = NoPrevious
    /\ previous' = LeftByRun
    /\ RotCall(start, end, freq, n)

\* run_backtest called again on the instance of a finished volume run.
VolRunAgain(start, end) ==
    /\ backtester = "SectorVolumeBacktester"
    /\ Finished
    /\ previous = NoPrevious
    /\ previous' = LeftByRun
    /\ VolCall(start, end)

RerunNext ==
    \/ backtester = "SectorRotationBacktester" /\ RotNext
    \/ backtester = "SectorVolumeBacktester" /\ VolNext
    \/ \E start \in StartDates, end \in RotEndDates, freq \in RebalanceFreqs, n \in TopNs :
          RotRunAgain(start, end, freq, n)
    \/ \E start \in StartDates, end \in EndDates : VolRunAgain(start, end)

RerunSpec == RerunInit /\ [][RerunNext]_vars

\* A step that enters run_backtest.
CallStep == pc # "loop"

\* C19: every run_backtest call, the first or a later one, starts from
\* cash = initial_capital, no positions, an empty ledger and an empty value
\* series whatever the previous run left, and a second run with the inputs of
\* the first ends with the result, cash, positions, ledger and value series
\* of the first.
RunsStartFresh ==
    /\ [][CallStep =>
             /\ cash' = R(initial_capital)
             /\ positions' = <<>>
             /\ trades' = <<>>
             /\ portfolio_value' = <<>>
             /\ last_rebalance_date' = <<>>
             /\ holding' = FALSE /\ entry_price' = R(0)]_vars
    /\ []((Finished /\ previous # NoPrevious /\ previous.args = args) =>
             /\ result = previous.result
             /\ cash = previous.cash
             /\ positions = previous.positions
             /\ trades = previous.trades
             /\ portfolio_value = previous.portfolio_value)

\* A second rotation run, with the inputs of the first, finished on an
\* instance whose first run had left positions open.
RepeatedAfterOpenPositions ==
    /\ backtester = "SectorRotationBacktester"
    /\ pc = "done"
    /\ previous # NoPrevious
    /\ previous.args = args
    /\ previous.positions # <<>>
    /\ trades # <<>>

\* C20: on the first processed day of a rotation run (the first business day
\* on which every tracked symbol has a bar) the rebalance is performed and
\* that day becomes the last-rebalance date.
FirstProcessedDayRebalances ==
    [][(/\ backtester = "SectorRotationBacktester"
        /\ InLoop
        /\ Tradable(price_data, etf_symbols, Today)
        /\ portfolio_value = <<>>) =>
          /\ Len(portfolio_value') = 1
          /\ last_rebalance_date' = <<Today>>]_vars

(***************************************************************************)
(* The cadence and the content of the rebalances of a rotation run.        *)
(***************************************************************************)
\* A day of the loop on which every tracked instrument has a bar.
ProcessedDay == InLoop /\ Tradable(price_data, etf_symbols, Today)

\* Calendar days from the last rebalance to today.
SinceRebalance == Today - last_rebalance_date[1]

\* C21 (as stated): after a rebalance on day r no trade is recorded on a
\* processed day fewer than rebalance_freq calendar days after r, and the
\* first processed day at least rebalance_freq days after r rebalances.
RebalancesEveryFreqDays ==
    [][(ProcessedDay /\ last_rebalance_date # <<>>) =>
          IF SinceRebalance < rebalance_freq
          THEN trades' = trades /\ last_rebalance_date' = last_rebalance_date
          ELSE last_rebalance_date' = <<Today>>]_vars

\* C21: after a rebalance on day r no trade is recorded on a processed day
\* fewer than rebalance_freq calendar days after r, and the rebalance is
\* performed on the first processed day at least rebalance_freq days after r
\* for which the relative-strength table has a row.
RebalancesEveryFreqDaysWhenRanked ==
    [][(ProcessedDay /\ last_rebalance_date # <<>>) =>
          IF SinceRebalance >= rebalance_freq /\ InRsIndex(rs_data, Today)
          THEN last_rebalance_date' = <<Today>>
          ELSE trades' = trades /\ last_rebalance_date' = last_rebalance_date]_vars

\* A second rebalance, after days held since a first that traded.
RebalancedAgainAfterHolding ==
    /\ backtester = "SectorRotationBacktester"
    /\ JustRebalanced
    /\ \E i \in DOMAIN trades :
          /\ trades[i].date < dates[di - 1]
          /\ dates[di - 1] - trades[i].date >= rebalance_freq
          /\ \E j \in DOMAIN portfolio_value :
                trades[i].date < portfolio_value[j].date /\ portfolio_value[j].date < dates[di - 1]

\* The records a step appends to the ledger.
NewTrades == SubSeq(trades', Len(trades) + 1, Len(trades'))

\* C22: every rebalance is a full turnover: each symbol held before it gets
\* exactly one SELL record, for all its shares at the day's adjusted close,
\* whether or not it is bought again, no other SELL is recorded, and the
\* SELL records of the day precede its BUY records.
RebalanceIsFullTurnover ==
    [][RebalanceStep =>
          /\ Len(trades') >= Len(trades)
          /\ SubSeq(trades', 1, Len(trades)) = trades
          /\ \A p \in DOMAIN positions :
                Cardinality({k \in DOMAIN NewTrades :
                                /\ NewTrades[k].action = "SELL"
                                /\ NewTrades[k].symbol = positions[p].symbol}) = 1
          /\ \A k \in DOMAIN NewTrades :
                /\ NewTrades[k].date = Today
                /\ NewTrades[k].action = "SELL" =>
                      /\ DictHas(positions, NewTrades[k].symbol)
                      /\ NewTrades[k].shares = DictGet(positions, NewTrades[k].symbol)
                      /\ NewTrades[k].price = R(RowAt(price_data[NewTrades[k].symbol], Today).adjusted_close)
                      /\ NewTrades[k].value = RMul(NewTrades[k].shares, NewTrades[k].price)
                      /\ \A j \in 1..(k - 1) : NewTrades[j].action = "SELL"]_vars

\* A rebalance that sold a symbol and bought it again.
SoldAndBoughtAgain ==
    /\ backtester = "SectorRotationBacktester"
    /\ JustRebalanced
    /\ \E i, j \in DOMAIN trades :
          /\ i < j
          /\ trades[i].date = dates[di - 1] /\ trades[i].action = "SELL"
          /\ trades[j].date = dates[di - 1] /\ trades[j].action = "BUY"
          /\ trades[i].symbol = trades[j].symbol

\* The candidates of today's rebalance.
Candidates == BuyCandidates(price_data, rs_data, Today, top_n, threshold_volume)

Buys(records) == {k \in DOMAIN records : records[k].action = "BUY"}

\* C23: after a rebalance with k >= 1 candidates the held symbols are the
\* candidates, k BUY records were appended, each position is worth the
\* portfolio value before the rebalance divided by k at the day's price, and
\* cash is 0; after a rebalance without candidates no position is held, no
\* BUY is recorded and cash is the whole portfolio value.
EqualSplitOrAllCash ==
    [][RebalanceStep =>
          LET k      == Len(Candidates)
              before == HeldValue(cash, positions, Today)
          IN  /\ Cardinality(Buys(NewTrades)) = k
              /\ Len(positions') = k
              /\ Range(DictKeys(positions')) = Range(Candidates)
              /\ IF k = 0
                 THEN cash' = before
                 ELSE /\ cash' = R(0)
                      /\ \A p \in DOMAIN positions' :
                            RMul(positions'[p].shares,
                                 R(RowAt(price_data[positions'[p].symbol], Today).adjusted_close))
                               = RDiv(before, R(k))]_vars

\* A rebalance into two candidates.
SplitInTwo ==
    /\ backtester = "SectorRotationBacktester"
    /\ JustRebalanced
    /\ Len(positions) = 2
    /\ cash = R(0)

\* A rebalance without candidates that sold a position.
AllCashAfterSelling ==
    /\ backtester = "SectorRotationBacktester"
    /\ JustRebalanced
    /\ positions = <<>>
    /\ trades # <<>>
    /\ Last(trades).date = dates[di - 1]

\* The ranking computed for day d from the rows of the table up to d.
RankingOf(d) ==
    get_sector_rotation(normalize_relative_strength(RsUpTo(rs_data, d)), top_n, lookback_period)

\* buy_signal of the symbol's bars up to and including d, on one of the last
\* five rows.
SignalledBy(s, d) ==
    LET bars   == SelectSeq(price_data[s], LAMBDA bar : bar.date <= d)
        signal == generate_buy_signals(calculate_volume_indicators(bars), threshold_volume)
    IN  \E i \in DOMAIN signal : i > Len(signal) - 5 /\ signal[i]

\* C24: a symbol is bought at the rebalance of day d if and only if it is
\* among the top_n symbols of the ranking computed for d and its buy_signal,
\* computed from its bars up to and including d, is true on at least one of
\* its last 5 rows.
BoughtIffRankedAndSignalled ==
    [][RebalanceStep =>
          \A i \in DOMAIN etf_symbols :
              LET s == etf_symbols[i]
              IN  (\E k \in Buys(NewTrades) : NewTrades[k].symbol = s)
                     <=> (s \in Range(RankingOf(Today)) /\ SignalledBy(s, Today))]_vars

\* A rebalance that bought one of two ranked symbols and not the other.
BoughtOneOfTwoRanked ==
    /\ backtester = "SectorRotationBacktester"
    /\ JustRebalanced
    /\ Len(RankingOf(dates[di - 1])) = 2
    /\ Len(positions) = 1
    /\ Last(trades).date = dates[di - 1] /\ Last(trades).action = "BUY"

\* Every tracked instrument has a bar dated d among the rows loaded.
AllHaveBar(d) ==
    \A i \in DOMAIN etf_symbols :
        \E k \in DOMAIN price_data[etf_symbols[i]] : price_data[etf_symbols[i]][k].date = d

\* The days of the loop already visited.
Visited == SubSeq(dates, 1, di - 1)

\* C25: a business day on which a tracked instrument has no bar changes
\* neither cash, positions, ledger, value series nor the last-rebalance date,
\* and the value series has one sample for each visited day on which every
\* tracked instrument has a bar, in order, and no other.
MissingBarSkipsTheDay ==
    /\ [][(InLoop /\ ~AllHaveBar(Today)) =>
             /\ cash' = cash
             /\ positions' = positions
             /\ trades' = trades
             /\ portfolio_value' = portfolio_value
             /\ last_rebalance_date' = last_rebalance_date]_vars
    /\ []([k \in DOMAIN portfolio_value |-> portfolio_value[k].date]
             = SelectSeq(Visited, AllHaveBar))

\* A day skipped while a position was held.
SkippedWhileHolding ==
    /\ backtester = "SectorRotationBacktester"
    /\ pc = "loop" /\ di > 1
    /\ ~AllHaveBar(dates[di - 1])
    /\ positions # <<>>
    /\ portfolio_value # <<>>

(***************************************************************************)
(* The rows of a single-instrument run.                                    *)
(***************************************************************************)
\* A step of the loop over the rows of the single-instrument run.
RowStep == backtester = "SectorVolumeBacktester" /\ InRows

\* Cash plus the shares held at a close.
ValueAt(cash_, positions_, close) ==
    RAdd(cash_, RSum([i \in DOMAIN positions_ |-> RMul(positions_[i].shares, R(close))],
                     1, Len(positions_)))

\* C26: the single-instrument run appends one sample per row, in row order,
\* whatever the state; the sample is cash plus the held shares at the row's
\* adjusted close after the trade of the row, which is the value of cash and
\* shares before the trade at the same close.
OneSamplePerRow ==
    /\ [][RowStep =>
             /\ portfolio_value' =
                   Append(portfolio_value,
                          [date  |-> data[ri].date,
                           value |-> ValueAt(cash', positions', data[ri].adjusted_close)])
             /\ ValueAt(cash', positions', data[ri].adjusted_close)
                   = ValueAt(cash, positions, data[ri].adjusted_close)]_vars
    /\ [](backtester = "SectorVolumeBacktester" =>
             [k \in DOMAIN portfolio_value |-> portfolio_value[k].date]
                = [k \in 1..(ri - 1) |-> data[k].date])

\* A row that sold at another price than the entry and was sampled.
SampledRowOfSale ==
    /\ backtester = "SectorVolumeBacktester"
    /\ pc = "loop" /\ ri > 1
    /\ trades # <<>>
    /\ Last(trades).action = "SELL"
    /\ Last(trades).date = data[ri - 1].date
    /\ Last(portfolio_value).date = data[ri - 1].date
    /\ Last(portfolio_value).value # R(initial_capital)

(***************************************************************************)
(* VolumeSignalGenerator on one series: the indicators, then the buy and   *)
(* the sell signals.                                                       *)
(***************************************************************************)
\* The bars of a series at VolBasePrice that moves to `level` on day `jump`,
\* with one day of high volume.
SigBars(jump, level, spike) ==
    LET all == [d \in 1..(MaxDay + 1) |->
                   [date           |-> d - 1,
                    adjusted_close |-> IF d - 1 >= jump THEN level ELSE VolBasePrice,
                    volume         |-> IF d - 1 = spike THEN SpikeVolume ELSE BaseVolume]]
    IN  SelectSeq(all, LAMBDA row : IsBusinessDay(row.date))

SigJumpDays == {d \in (FirstJump - 7)..(FirstJump + 1) : IsBusinessDay(d)}

SigSpikeDays == {d \in FirstJump..(FirstJump + 4) : IsBusinessDay(d)}

SigLevels == {VolBasePrice - 10, VolBasePrice + 10}

SigDatabases ==
    {[s \in {symbol} |-> SigBars(jump, level, spike)] :
        jump \in SigJumpDays, level \in SigLevels, spike \in SigSpikeDays}

SigInit ==
    /\ db \in SigDatabases
    /\ backtester = "none"
    /\ NothingRun
    /\ pc = "idle"
    /\ start_date = 0 /\ end_date = 0 /\ rebalance_freq = 0 /\ top_n = 0
    /\ price_data = <<>> /\ rs_data = NoTable /\ dates = <<>> /\ di = 1
    /\ last_rebalance_date = <<>>
    /\ data = <<>> /\ ri = 1 /\ holding = FALSE /\ entry_price = R(0)
    /\ cash = R(initial_capital)
    /\ positions = <<>>
    /\ portfolio_value = <<>>
    /\ trades = <<>>
    /\ result = NoResult

\* What the signal generator's steps leave alone.
unsignalled == <<outside, rebalance_freq, top_n, price_data, rs_data, dates, di,
                 last_rebalance_date, ri, holding, entry_price,
                 cash, positions, portfolio_value, trades, result>>

\* get_price_volume_data and calculate_volume_indicators.
SigIndicators(start, end) ==
    /\ pc = "idle"
    /\ start_date' = start /\ end_date' = end
    /\ data' = calculate_volume_indicators(get_price_volume_data(db, symbol, start, end))
    /\ pc' = "indicators"
    /\ UNCHANGED unsignalled

\* generate_buy_signals with the default threshold and trend_days.
SigBuySignals ==
    /\ pc = "indicators"
    /\ LET buy_signal == generate_buy_signals(data, threshold_volume)
       IN  data' = [i \in DOMAIN data |->
                       [date            |-> data[i].date,
                        adjusted_close  |-> data[i].adjusted_close,
                        volume          |-> data[i].volume,
                        price_ma        |-> data[i].price_ma,
                        volume_ma       |-> data[i].volume_ma,
                        relative_volume |-> data[i].relative_volume,
                        obv             |-> data[i].obv,
                        buy_signal      |-> buy_signal[i]]]
    /\ pc' = "buy_signals"
    /\ UNCHANGED <<unsignalled, start_date, end_date>>

\* generate_sell_signals with the default threshold and trend_days.
SigSellSignals ==
    /\ pc = "buy_signals"
    /\ LET sell_signal == generate_sell_signals(data, threshold_volume)
       IN  data' = [i \in DOMAIN data |->
                       [date            |-> data[i].date,
                        adjusted_close  |-> data[i].adjusted_close,
                        volume          |-> data[i].volume,
                        price_ma        |-> data[i].price_ma,
                        volume_ma       |-> data[i].volume_ma,
                        relative_volume |-> data[i].relative_volume,
                        obv             |-> data[i].obv,
                        buy_signal      |-> data[i].buy_signal,
                        sell_signal     |-> sell_signal[i]]]
    /\ pc' = "signals"
    /\ UNCHANGED <<unsignalled, start_date, end_date>>

SigNext ==
    \/ \E start \in StartDates, end \in EndDates : SigIndicators(start, end)
    \/ SigBuySignals
    \/ SigSellSignals

SigSpec == SigInit /\ [][SigNext]_vars

\* An operand of the rules of row i is undefined: price_ma on one of the
\* trailing trend_days rows (or the row is not there), relative_volume on the
\* row, or obv five rows earlier.
OperandUndefined(i) ==
    \/ \E j \in (i - trend_days + 1)..i : j < 1 \/ data[j].price_ma = NaN
    \/ data[i].relative_volume = NaN
    \/ i - 5 < 1

\* C27: a row with an undefined operand has neither a buy nor a sell signal.
UndefinedOperandMeansNoSignal ==
    pc = "signals" =>
        \A i \in DOMAIN data :
            OperandUndefined(i) => ~data[i].buy_signal /\ ~data[i].sell_signal

\* C28: obv is 0 on the first row, and from a row to the next it moves by
\* +volume when the close rose, by -volume when it fell and not at all when
\* the close is unchanged.
ObvFollowsTheClose ==
    (pc \in {"indicators", "buy_signals", "signals"} /\ data # <<>>) =>
        /\ data[1].obv = 0
        /\ \A t \in 2..Len(data) :
              data[t].obv - data[t - 1].obv =
                 IF data[t].adjusted_close > data[t - 1].adjusted_close THEN data[t].volume
                 ELSE IF data[t].adjusted_close < data[t - 1].adjusted_close THEN 0 - data[t].volume
                 ELSE 0

\* A frame whose close fell on the day of high volume.
ObvFellBySpike ==
    /\ pc = "indicators"
    /\ \E t \in 2..Len(data) :
          /\ data[t].adjusted_close < data[t - 1].adjusted_close
          /\ data[t].obv = data[t - 1].obv - SpikeVolume
    /\ \E t \in 2..Len(data) : data[t].obv = data[t - 1].obv

\* A rebalance is due today: none yet, or rebalance_freq calendar days since
\* the last.
DueToday == last_rebalance_date = <<>> \/ Today - last_rebalance_date[1] >= rebalance_freq

\* The relative-strength table has a row dated d.
HasRsRow(d) == \E k \in DOMAIN rs_data.rows : rs_data.rows[k].date = d

\* C29: a processed day on which a rebalance is due and the relative-strength
\* table has no row trades nothing, leaves cash, positions, ledger and the
\* last-rebalance date as they are and is only sampled, so the rebalance stays
\* due; it is performed on the first following processed day that has a row.
UnrankedDayDefersRebalance ==
    [][(ProcessedDay /\ DueToday) =>
          IF HasRsRow(Today)
          THEN last_rebalance_date' = <<Today>>
          ELSE /\ cash' = cash
               /\ positions' = positions
               /\ trades' = trades
               /\ last_rebalance_date' = last_rebalance_date
               /\ Len(portfolio_value') = Len(portfolio_value) + 1
               /\ Last(portfolio_value').date = Today]_vars

\* A rebalance deferred on the day before was performed, after an earlier
\* rebalance.
DeferredRebalanceDone ==
    /\ backtester = "SectorRotationBacktester"
    /\ JustRebalanced
    /\ di > 3
    /\ ~HasRsRow(dates[di - 2])
    /\ Len(portfolio_value) > 2
    /\ portfolio_value[Len(portfolio_value) - 1].date = dates[di - 2]
    /\ HasRsRow(portfolio_value[1].date) \/ HasRsRow(portfolio_value[2].date)

\* The cash a purchase recorded last in the ledger was made with: the initial
\* capital, or the proceeds of the sale before it.
CashBeforeLastBuy ==
    IF Len(trades) = 1 THEN R(initial_capital) ELSE trades[Len(trades) - 1].value

\* C30: after every row of a single-instrument run the state is either long,
\* with cash 0 and one position of a positive number of shares, the cash
\* before the purchase divided by the entry price, or flat, with no position
\* and a cash that is not negative: the initial capital, or the proceeds of
\* the last sale.
LongOrFlat ==
    (backtester = "SectorVolumeBacktester" /\ pc = "loop") =>
        IF holding
        THEN /\ cash = R(0)
             /\ Len(positions) = 1
             /\ positions[1].symbol = symbol
             /\ RGt(positions[1].shares, R(0))
             /\ trades # <<>> /\ Last(trades).action = "BUY"
             /\ Last(trades).price = entry_price
             /\ positions[1].shares = RDiv(CashBeforeLastBuy, entry_price)
             /\ Len(trades) > 1 => trades[Len(trades) - 1].action = "SELL"
        ELSE /\ positions = <<>>
             /\ RGe(cash, R(0))
             /\ IF trades = <<>> THEN cash = R(initial_capital)
                ELSE /\ Last(trades).action = "SELL"
                     /\ cash = Last(trades).value

\* Long again, bought with the proceeds of a sale at a loss.
LongOnProceeds ==
    /\ backtester = "SectorVolumeBacktester"
    /\ pc = "loop"
    /\ holding
    /\ Len(trades) >= 3
    /\ RLt(CashBeforeLastBuy, R(initial_capital))
    /\ cash = R(0)

=============================================================================
